---- MODULE Spec2Model ----
(***************************************************************************)
(* A model of the Arinst device driver (arinst_device.py) and of the       *)
(* acquisition thread that scans with it (run.py, SpectrumThread).         *)
(*                                                                         *)
(* Bytes are integers 0..255 and byte strings are sequences of them.       *)
(* Frequencies are counted in units of 10 Hz (see Hz), because the model   *)
(* checker's integers are 32 bits wide and 6 GHz in Hz is not; Python's    *)
(* integers are unbounded, so no overflow is modelled.  Amplitudes are     *)
(* counted in hundredths of a dBm.                                         *)
(***************************************************************************)
EXTENDS Integers, Sequences, FiniteSets, TLC

VARIABLES
    serial_is_open,   \* ArinstDevice.__serial.is_open
    package_index,    \* ArinstDevice.__package_index
    wire_idx,         \* the package indices of the requests written, in order
    wire_last,        \* the last request written: its parts and its bytes
    input,            \* the call being made: operation, arguments, device reply
    call,             \* the last completed call on the session and its outcome
    rx,               \* the serial port's input buffer
    pc,               \* where the GUI thread and the scan thread are
    loc,              \* each thread's local variables in its device call
    running,          \* SpectrumThread.running
    scan_config,      \* SpectrumThread.scan_config
    gui,              \* EnhancedSpectrumAnalyzer: device, scan_thread, scanning
    signals,          \* the signals the scan thread has emitted, in order
    sleep_ms,         \* the argument of the scan thread's last msleep
    budget,           \* device operations the threads may still start (bounds the model)
    recording,        \* SpectrumThread.recording
    recorded_data,    \* SpectrumThread.recorded_data: the list it refers to
    lists,            \* the list objects: lists[r] is the content of list r
    returned,         \* what stop_recording returned last, and when
    started_at,       \* the signals emitted when start_recording last returned
    clock,            \* what time.time() returned last, and whether the
                      \* system clock was ever set back
    workers,          \* the SpectrumThread objects created (SpecWorkers)
    sessions          \* the ArinstDevice objects created (SpecWorkers)

\* The session and the single caller's call.
svars == << serial_is_open, package_index, wire_idx, wire_last, input, call >>

\* The threads.
\* The recording, and the objects of SpecWorkers.
rvars == << recording, recorded_data, lists, returned, started_at, clock,
           workers, sessions >>

tvars == << rx, pc, loc, running, scan_config, gui, signals, sleep_ms, budget,
            recording, recorded_data, lists, returned, started_at, clock,
            workers, sessions >>

vars == << serial_is_open, package_index, wire_idx, wire_last, input, call,
           rx, pc, loc, running, scan_config, gui, signals, sleep_ms, budget,
           recording, recorded_data, lists, returned, started_at, clock,
           workers, sessions >>

----------------------------------------------------------------------------
(* Units and byte strings *)

\* n Hz in the model's frequency unit of 10 Hz.
Hz(n) == n \div 10

Last(s) == s[Len(s)]

\* The ASCII bytes of the tokens the driver sends and compares with.
Ascii(str) ==
    CASE str = "gon"      -> << 103, 111, 110 >>
      [] str = "gof"      -> << 103, 111, 102 >>
      [] str = "scf"      -> << 115, 99, 102 >>
      [] str = "sga"      -> << 115, 103, 97 >>
      [] str = "scn20"    -> << 115, 99, 110, 50, 48 >>
      [] str = "scn22"    -> << 115, 99, 110, 50, 50 >>
      [] str = "complete" -> << 99, 111, 109, 112, 108, 101, 116, 101 >>
      [] str = "success"  -> << 115, 117, 99, 99, 101, 115, 115 >>
      [] str = "error"    -> << 101, 114, 114, 111, 114 >>
      [] str = " "        -> << 32 >>
      [] str = "\r\n"     -> << 13, 10 >>

\* class ArinstCommand
GENERATOR_ON == "gon"
GENERATOR_OFF == "gof"
GENERATOR_SET_FREQUENCY == "scf"
GENERATOR_SET_AMPLITUDE == "sga"
SCAN_RANGE == "scn20"
SCAN_RANGE_TRACKING == "scn22"

Commands == { GENERATOR_ON, GENERATOR_OFF, GENERATOR_SET_FREQUENCY,
              GENERATOR_SET_AMPLITUDE, SCAN_RANGE, SCAN_RANGE_TRACKING }

\* self.__command_terminate
command_terminate == Ascii("\r\n")

\* self.__command_count_terminate
command_count_terminate(command) ==
    CASE command = GENERATOR_ON            -> 2
      [] command = GENERATOR_OFF           -> 2
      [] command = GENERATOR_SET_FREQUENCY -> 3
      [] command = GENERATOR_SET_AMPLITUDE -> 2
      [] command = SCAN_RANGE              -> 4
      [] command = SCAN_RANGE_TRACKING     -> 4

\* str(n) for n >= 0, as ASCII bytes.
RECURSIVE DecimalAscii(_)
DecimalAscii(n) ==
    IF n < 10 THEN << 48 + n >>
    ELSE DecimalAscii(n \div 10) \o << 48 + (n % 10) >>

\* str(n) for any integer n, as ASCII bytes.
IntAscii(n) == IF n < 0 THEN << 45 >> \o DecimalAscii(-n) ELSE DecimalAscii(n)

\* str(hz) of a frequency given in the model's unit: f stands for 10 f Hz.
FrequencyAscii(f) == IF f = 0 THEN << 48 >> ELSE IntAscii(f) \o << 48 >>

RECURSIVE Flatten(_)
Flatten(ss) == IF ss = << >> THEN << >> ELSE Head(ss) \o Flatten(Tail(ss))

\* bytes.split(sep): the pieces between the occurrences of sep, found left to
\* right; i scans the string and the current piece starts at from.
RECURSIVE SplitFrom(_, _, _, _)
SplitFrom(s, sep, i, from) ==
    IF i + Len(sep) - 1 > Len(s)
    THEN << SubSeq(s, from, Len(s)) >>
    ELSE IF SubSeq(s, i, i + Len(sep) - 1) = sep
         THEN << SubSeq(s, from, i - 1) >>
              \o SplitFrom(s, sep, i + Len(sep), i + Len(sep))
         ELSE SplitFrom(s, sep, i + 1, from)

bytes_split(s, sep) == SplitFrom(s, sep, 1, 1)

\* str(b, 'ascii') raises UnicodeDecodeError when a byte is above 127.
IsAscii(b) == \A i \in 1..Len(b) : b[i] < 128

----------------------------------------------------------------------------
(* The transport: Serial.read_until on the bytes the device has sent *)

\* The positions where the terminator starts in buf.
TerminatorAt(buf) ==
    { i \in 1..(Len(buf) - 1) : SubSeq(buf, i, i + 1) = command_terminate }

\* Serial.read_until(terminator): the bytes up to and including the first
\* terminator; when none arrives before the timeout, the bytes that arrived.
read_until(buf) ==
    IF TerminatorAt(buf) = {}
    THEN [data |-> buf, rest |-> << >>, timed_out |-> TRUE]
    ELSE LET p == CHOOSE i \in TerminatorAt(buf) :
                      \A j \in TerminatorAt(buf) : i <= j
         IN  [data |-> SubSeq(buf, 1, p + 1),
              rest |-> SubSeq(buf, p + 2, Len(buf)),
              timed_out |-> FALSE]

\* _read giving up at the first read_until that times out.
RECURSIVE ReadLoop_until_timeout(_, _, _, _)
ReadLoop_until_timeout(buf, n, msg, timeouts) ==
    IF n = 0 THEN [msg |-> msg, timeouts |-> timeouts, reads |-> 0]
    ELSE LET r == read_until(buf)
         IN  IF r.timed_out
             THEN [msg |-> msg \o r.data, timeouts |-> timeouts + 1,
                   reads |-> 1]
             ELSE LET rest == ReadLoop_until_timeout(r.rest, n - 1,
                                                     msg \o r.data, timeouts)
                  IN  [rest EXCEPT !.reads = @ + 1]

\* ArinstDevice._read: command_count_terminate[command] calls of read_until,
\* concatenated; n counts the calls left, msg is the bytes read so far and
\* timeouts the number of calls that timed out; reads counts the calls made.
RECURSIVE ReadLoop(_, _, _, _)
ReadLoop(buf, n, msg, timeouts) ==
    IF n = 0 THEN [msg |-> msg, timeouts |-> timeouts, reads |-> 0]
    ELSE LET r == read_until(buf)
             rest == ReadLoop(r.rest, n - 1, msg \o r.data,
                              timeouts + (IF r.timed_out THEN 1 ELSE 0))
         IN  [rest EXCEPT !.reads = @ + 1]

read(command, buf) == ReadLoop(buf, command_count_terminate(command), << >>, 0)

NotEmpty(b) == b # << >>

SplitOnSpace(b) == bytes_split(b, Ascii(" "))

\* send_command keeping the empty segments.
decode_response_keeping_empty(msg) ==
    LET segments == bytes_split(msg, command_terminate)
    IN  [i \in 1..Len(segments) |-> SplitOnSpace(segments[i])]

\* ArinstDevice.send_command, after the write: the bytes read, split on the
\* terminator, the empty segments dropped, each segment split on the space.
decode_response(msg) ==
    LET segments == SelectSeq(bytes_split(msg, command_terminate), NotEmpty)
    IN  [i \in 1..Len(segments) |-> SplitOnSpace(segments[i])]

----------------------------------------------------------------------------
(* Outcomes of a call: a returned value or a raised exception *)

Bool(b) == [kind |-> "bool", val |-> b]
None == [kind |-> "none"]
List(a) == [kind |-> "list", val |-> a]
Raise(e) == [kind |-> "raise", exc |-> e]

\* response[-1][0] == b"complete" and str(response[0][0], 'ascii') == command
\* response[-1] raises IndexError on an empty list; `and` evaluates its right
\* side only when the left one is true.
complete_and_echo(response, command) ==
    IF Len(response) = 0 THEN Raise("IndexError")
    ELSE IF Last(response)[1] # Ascii("complete") THEN Bool(FALSE)
    ELSE IF ~IsAscii(response[1][1]) THEN Raise("UnicodeDecodeError")
    ELSE Bool(response[1][1] = Ascii(command))

\* on() judging by the "complete" segment alone.
on_result_ignores_echo(response) ==
    IF Len(response) = 0 THEN Raise("IndexError")
    ELSE Bool(Last(response)[1] = Ascii("complete"))

\* ArinstDevice.on, from the decoded response
on_result(response) == complete_and_echo(response, GENERATOR_ON)

\* ArinstDevice.off, from the decoded response
off_result(response) == complete_and_echo(response, GENERATOR_OFF)

\* set_frequency() not looking at the "success" segment.
set_frequency_result_without_success(response) ==
    IF Len(response) = 3
    THEN complete_and_echo(response, GENERATOR_SET_FREQUENCY)
    ELSE Bool(FALSE)

\* ArinstDevice.set_frequency, from the decoded response
set_frequency_result(response) ==
    IF Len(response) = 3
    THEN LET ce == complete_and_echo(response, GENERATOR_SET_FREQUENCY)
         IN  IF ce # Bool(TRUE) THEN ce
             ELSE IF ~IsAscii(response[2][1]) THEN Raise("UnicodeDecodeError")
             ELSE Bool(response[2][1] = Ascii("success"))
    ELSE Bool(FALSE)

\* ArinstDevice.set_amplitude: the argument check and the device parameter
amplitude_in_range(amplitude) == -25 <= amplitude /\ amplitude <= -15

\* The device parameter counted from -25 dBm instead of -15 dBm.
amplitude_param_from_25(amplitude) == ((amplitude + 25) * 100) + 10000

amplitude_param(amplitude) == ((amplitude + 15) * 100) + 10000

\* ArinstDevice.set_amplitude, from the decoded response
set_amplitude_result(response) ==
    complete_and_echo(response, GENERATOR_SET_AMPLITUDE)

\* a & b and a | b on naturals, bit by bit
RECURSIVE BitAnd(_, _)
BitAnd(a, b) ==
    IF a = 0 \/ b = 0 THEN 0
    ELSE (a % 2) * (b % 2) + 2 * BitAnd(a \div 2, b \div 2)

RECURSIVE BitOr(_, _)
BitOr(a, b) ==
    IF a = 0 THEN b
    ELSE IF b = 0 THEN a
    ELSE (IF a % 2 = 1 \/ b % 2 = 1 THEN 1 ELSE 0)
         + 2 * BitOr(a \div 2, b \div 2)

\* __decode_data's sample with the two bytes taken low byte first.
sample_low_byte_first(first, second) ==
    BitAnd(BitOr(second * 256, first), 2047)

\* __decode_data's sample with twelve bits kept.
sample_of_12_bits(first, second) ==
    BitAnd(BitOr(first * 256, second), 4095)

\* ArinstDevice.__decode_data, lines 123-124:
\* val = first << 8 | second; data = val & 0b0000011111111111
sample(first, second) ==
    BitAnd(BitOr(first * 256, second), 2047)

\* ArinstDevice.__decode_data, the loop `for i in range(0, len(response), 2)`
\* from position i (counted from 0) on: a reading is appended when the pair is
\* complete (i + 1 < len(response)), in hundredths of a dBm:
\* (800.0 - data)/10.0 - attenuation/100.0.
RECURSIVE DecodeFrom(_, _, _, _)
DecodeFrom(response, i, attenuation, amplitudes) ==
    IF i >= Len(response) THEN amplitudes
    ELSE IF i + 1 < Len(response)
         THEN LET data == sample(response[i + 1], response[i + 2])
              IN  DecodeFrom(response, i + 2, attenuation,
                             Append(amplitudes,
                                    (800 - data) * 10 - attenuation))
         ELSE DecodeFrom(response, i + 2, attenuation, amplitudes)

\* ArinstDevice.__decode_data
decode_data(response, attenuation) ==
    DecodeFrom(response, 0, attenuation, << >>)

\* b[0:-2]
DropLast2(b) == SubSeq(b, 1, Len(b) - 2)

\* The frequency bounds and limits get_scan_range checks.
MinFreq == Hz(1000000)
MaxFreq == 6 * Hz(1000000000)
MinStep == Hz(1000)
max_points == 2000

\* int((stop - start) / step) + 1.  The float quotient of two integers below
\* 2^53 whose quotient is below 2^23 truncates to the integer quotient.
num_points(start, stop, step) == ((stop - start) \div step) + 1

\* validate with the point limit off by one (rejects a scan of exactly
\* max_points points).
validate_points_off_by_one(start, stop, step, attenuation) ==
    IF ~(MinFreq <= start /\ start <= MaxFreq) THEN "start"
    ELSE IF ~(MinFreq <= stop /\ stop <= MaxFreq) THEN "stop"
    ELSE IF start >= stop THEN "order"
    ELSE IF step < MinStep THEN "step_small"
    ELSE IF step > (stop - start) THEN "step_large"
    ELSE IF num_points(start, stop, step) >= max_points THEN "points"
    ELSE IF ~(-30 <= attenuation /\ attenuation <= 0) THEN "attenuation"
    ELSE "ok"

\* validate without the check of the step against the span.
validate_without_step_limit(start, stop, step, attenuation) ==
    IF ~(MinFreq <= start /\ start <= MaxFreq) THEN "start"
    ELSE IF ~(MinFreq <= stop /\ stop <= MaxFreq) THEN "stop"
    ELSE IF start >= stop THEN "order"
    ELSE IF step < MinStep THEN "step_small"
    ELSE IF num_points(start, stop, step) > max_points THEN "points"
    ELSE IF ~(-30 <= attenuation /\ attenuation <= 0) THEN "attenuation"
    ELSE "ok"

\* ArinstDevice.get_scan_range, the checks before any I/O, in the code's order:
\* the reason of the rejection, or "ok".
validate(start, stop, step, attenuation) ==
    IF ~(MinFreq <= start /\ start <= MaxFreq) THEN "start"
    ELSE IF ~(MinFreq <= stop /\ stop <= MaxFreq) THEN "stop"
    ELSE IF start >= stop THEN "order"
    ELSE IF step < MinStep THEN "step_small"
    ELSE IF step > (stop - start) THEN "step_large"
    ELSE IF num_points(start, stop, step) > max_points THEN "points"
    ELSE IF ~(-30 <= attenuation /\ attenuation <= 0) THEN "attenuation"
    ELSE "ok"

scan_command(tracking) == IF tracking THEN SCAN_RANGE_TRACKING ELSE SCAN_RANGE

attenuation_param(attenuation) == (attenuation * 100) + 10000

\* The scan's arguments with the step before the stop.
scan_args_step_first(cfg) ==
    << cfg.start, cfg.step, cfg.stop, 200, 20, 10700000,
       attenuation_param(cfg.attenuation) >>

scan_args(cfg) ==
    << cfg.start, cfg.stop, cfg.step, 200, 20, 10700000,
       attenuation_param(cfg.attenuation) >>

\* ArinstDevice.get_scan_range, from the decoded response
get_scan_range_result(response, command, attenuation) ==
    IF Len(response) >= 3
    THEN LET ce == complete_and_echo(response, command)
         IN  IF ce = Bool(TRUE)
             THEN List(decode_data(DropLast2(response[2][1]), attenuation))
             ELSE IF ce = Bool(FALSE) THEN None
             ELSE ce
    ELSE None

----------------------------------------------------------------------------
(* One call on the session, start to end (a single caller) *)

\* The arguments that are frequencies: scf's, and a scan's start, stop, step.
IsFrequencyArg(command, i) ==
    \/ command = GENERATOR_SET_FREQUENCY /\ i = 1
    \/ command \in { SCAN_RANGE, SCAN_RANGE_TRACKING } /\ i <= 3

\* f'{arg}' of the i-th argument of command
arg_ascii(command, i, arg) ==
    IF IsFrequencyArg(command, i) THEN FrequencyAscii(arg) ELSE IntAscii(arg)

\* _write's message with the space before the package index put after it.
message_space_after_index(command, args, index) ==
    Ascii(command)
    \o Flatten([i \in 1..Len(args) |->
                   Ascii(" ") \o arg_ascii(command, i, args[i])])
    \o DecimalAscii(index) \o Ascii(" ") \o command_terminate

\* ArinstDevice._write, line 61: bytes(msg, 'ascii') with
\* msg = command + "".join([f' {arg}' for arg in args]) + " "
\*       + str(self.__package_index) + self.__command_terminate
message(command, args, index) ==
    Ascii(command)
    \o Flatten([i \in 1..Len(args) |->
                   Ascii(" ") \o arg_ascii(command, i, args[i])])
    \o Ascii(" ") \o DecimalAscii(index) \o command_terminate

\* A request on the wire: its parts and the bytes written.
Request(command, args, index) ==
    [command |-> command, args |-> args, index |-> index,
     bytes |-> message(command, args, index)]

NoRequest == [command |-> "", args |-> << >>, index |-> -1, bytes |-> << >>]

NoCall == [op |-> "none", wrote |-> FALSE, reads |-> 0, timeouts |-> 0,
           response |-> << >>, result |-> None]

\* _write raising the package index before it writes: the index moves even
\* when the write raises.
write_counts_first(is_open, index, command, args) ==
    IF ~is_open
    THEN [raised |-> TRUE, sent |-> << >>, index |-> index + 1]
    ELSE [raised |-> FALSE,
          sent |-> << Request(command, args, index) >>,
          index |-> index + 1]

\* _write leaving the package index as it is.
write_keeps_index(is_open, index, command, args) ==
    IF ~is_open
    THEN [raised |-> TRUE, sent |-> << >>, index |-> index]
    ELSE [raised |-> FALSE,
          sent |-> << Request(command, args, index) >>,
          index |-> index]

\* ArinstDevice._write: the message carries the current package index;
\* Serial.write raises on a port that is not open, before anything is sent and
\* before the index is raised; after the write the index is raised by one.
write(is_open, index, command, args) ==
    IF ~is_open
    THEN [raised |-> TRUE, sent |-> << >>, index |-> index]
    ELSE [raised |-> FALSE,
          sent |-> << Request(command, args, index) >>,
          index |-> index + 1]

\* What the operation op makes of the decoded response.
result_of(op, command, attenuation, response) ==
    CASE op = "on"             -> on_result(response)
      [] op = "off"            -> off_result(response)
      [] op = "set_frequency"  -> set_frequency_result(response)
      [] op = "set_amplitude"  -> set_amplitude_result(response)
      [] op = "get_scan_range" ->
             get_scan_range_result(response, command, attenuation)

\* ArinstDevice.send_command(command, *args) followed by the calling
\* operation's reading of the response: the request is written,
\* command_count_terminate[command] reads are made on the device's reply, the
\* input buffer is reset (what was not read is discarded) and the bytes read
\* are decoded.  An exception of the write ends the call.
send_command(op, command, args, attenuation, reply) ==
    LET w == write(serial_is_open, package_index, command, args)
        r == read(command, reply)
        response == decode_response(r.msg)
    IN  /\ package_index' = w.index
        /\ wire_idx' = wire_idx \o [i \in 1..Len(w.sent) |-> w.sent[i].index]
        /\ wire_last' = IF w.sent = << >> THEN wire_last ELSE Last(w.sent)
        /\ call' = IF w.raised
                   THEN [op |-> op, wrote |-> w.sent # << >>, reads |-> 0,
                         timeouts |-> 0, response |-> << >>,
                         result |-> Raise("PortNotOpenError")]
                   ELSE [op |-> op, wrote |-> w.sent # << >>,
                         reads |-> r.reads,
                         timeouts |-> r.timeouts, response |-> response,
                         result |-> result_of(op, command, attenuation,
                                              response)]
        /\ UNCHANGED serial_is_open

\* A call that returns before any I/O.
return_early(op, result) ==
    /\ call' = [op |-> op, wrote |-> FALSE, reads |-> 0, timeouts |-> 0,
                response |-> << >>, result |-> result]
    /\ UNCHANGED << serial_is_open, package_index, wire_idx, wire_last >>

\* ArinstDevice.on
on(reply) ==
    send_command("on", GENERATOR_ON, << >>, 0, reply)

\* ArinstDevice.off
off(reply) ==
    send_command("off", GENERATOR_OFF, << >>, 0, reply)

\* ArinstDevice.set_frequency
set_frequency(frequency, reply) ==
    send_command("set_frequency", GENERATOR_SET_FREQUENCY, << frequency >>,
                 0, reply)

\* set_amplitude() without its range check.
set_amplitude_unchecked(amplitude, reply) ==
    send_command("set_amplitude", GENERATOR_SET_AMPLITUDE,
                 << amplitude_param(amplitude) >>, 0, reply)

\* ArinstDevice.set_amplitude
set_amplitude(amplitude, reply) ==
    IF amplitude_in_range(amplitude)
    THEN send_command("set_amplitude", GENERATOR_SET_AMPLITUDE,
                      << amplitude_param(amplitude) >>, 0, reply)
    ELSE return_early("set_amplitude", Bool(FALSE))

\* get_scan_range() without the checks before its I/O.
get_scan_range_unchecked(cfg, reply) ==
    send_command("get_scan_range", scan_command(cfg.tracking),
                 scan_args(cfg), cfg.attenuation, reply)

\* ArinstDevice.get_scan_range
get_scan_range(cfg, reply) ==
    IF validate(cfg.start, cfg.stop, cfg.step, cfg.attenuation) = "ok"
    THEN send_command("get_scan_range", scan_command(cfg.tracking),
                      scan_args(cfg), cfg.attenuation, reply)
    ELSE return_early("get_scan_range", None)

\* A close that opens a port it finds closed.
close_toggles ==
    /\ serial_is_open' = ~serial_is_open
    /\ call' = [op |-> "close", wrote |-> FALSE, reads |-> 0, timeouts |-> 0,
                response |-> << >>, result |-> None]
    /\ UNCHANGED << package_index, wire_idx, wire_last >>

\* ArinstDevice.close: `if self.__serial.is_open: self.__serial.close()`
close ==
    /\ serial_is_open' = IF serial_is_open THEN FALSE ELSE serial_is_open
    /\ call' = [op |-> "close", wrote |-> FALSE, reads |-> 0, timeouts |-> 0,
                response |-> << >>, result |-> None]
    /\ UNCHANGED << package_index, wire_idx, wire_last >>

\* ArinstDevice.is_connected: the Serial object has the attribute is_open
is_connected == serial_is_open

----------------------------------------------------------------------------
(* The threads' state *)

Threads == { "gui", "loop" }

\* The keys of SpectrumThread.scan_config; Absent marks a key never set.
Absent == -1

Cfg(start, stop, step, attenuation, tracking) ==
    [start |-> start, stop |-> stop, step |-> step,
     attenuation |-> attenuation, tracking |-> tracking]

\* SpectrumThread.__init__: scan_config, also get_scan_range's defaults
DefaultCfg == Cfg(Hz(1500000000), Hz(1700000000), Hz(1000000), 0, FALSE)

\* SpectrumThread.__init__: scan_config
InitScanConfig ==
    [start |-> DefaultCfg.start, stop |-> DefaultCfg.stop,
     step |-> DefaultCfg.step, attenuation |-> 0, tracking |-> FALSE,
     start_freq |-> Absent, stop_freq |-> Absent, step_freq |-> Absent]

NoLocal ==
    [op |-> "none", command |-> "", args |-> << >>, cfg |-> DefaultCfg,
     tmp |-> 0, reads_left |-> 0, msg |-> << >>, result |-> None,
     then |-> "none"]

\* No thread is modelled: the session has a single caller.
\* stop_recording has not returned anything yet.
NoReturn == [list |-> 0, since |-> -1, until |-> -1]

\* SpectrumThread.__init__, lines 39-40: not recording, recorded_data a new
\* empty list (list 1); start_recording has never been called.  No object of
\* SpecWorkers.
NoRecording ==
    /\ recording = FALSE
    /\ recorded_data = 1
    /\ lists = << << >> >>
    /\ returned = NoReturn
    /\ started_at = -1
    /\ clock = [now |-> 0, set_back |-> FALSE]
    /\ workers = << >>
    /\ sessions = << >>

NoThreads ==
    /\ rx = << >>
    /\ pc = [t \in Threads |-> "none"]
    /\ loc = [t \in Threads |-> NoLocal]
    /\ running = FALSE
    /\ scan_config = InitScanConfig
    /\ gui = [device |-> FALSE, scan_thread |-> FALSE, scanning |-> FALSE]
    /\ signals = << >>
    /\ sleep_ms = 0
    /\ budget = 0
    /\ NoRecording

----------------------------------------------------------------------------
(* What the device may send back, and the calls that are tried *)

MaxSegments == 3      \* segments in an arbitrary reply
MaxIndex == 1         \* package index of a session when a single call is tried
MaxCalls == 3         \* requests written in a sequence of calls
MaxShapedPoints == 201 \* scans up to this size are given well-formed replies
MaxVariedPoints == 9  \* scans up to this size are given mixed payloads

\* The segments, each followed by the terminator.
Lines(segments) ==
    Flatten([i \in 1..Len(segments) |-> segments[i] \o command_terminate])

EchoSegment(command, index) ==
    Ascii(command) \o Ascii(" ") \o DecimalAscii(index)

\* A segment that is not ASCII text.
JunkSegment == << 255, 32, 48 >>

SegmentAlphabet(command, index) ==
    { EchoSegment(command, index), Ascii("complete"), Ascii("success"),
      JunkSegment }

SeqsUpTo(A, n) == UNION { [1..k -> A] : k \in 0..n }

\* A reply as it arrives: "plain" is the segments as lines; "lead" has an empty
\* line first; "tail" has an empty line last; in "cut" the last terminator
\* does not arrive before the read timeout.
Arrives(segments, how) ==
    CASE how = "plain" -> Lines(segments)
      [] how = "lead"  -> command_terminate \o Lines(segments)
      [] how = "tail"  -> Lines(segments) \o command_terminate
      [] how = "cut"   -> DropLast2(Lines(segments))

\* Every reply of up to MaxSegments segments over the alphabet: well-formed,
\* malformed, short and absent (no byte at all) ones.
ArbitraryReplies(command, index) ==
    { Arrives(segments, how) :
        segments \in SeqsUpTo(SegmentAlphabet(command, index), MaxSegments),
        how \in { "plain", "lead", "cut" } }

\* Byte pairs a scan payload is made of: sample 800 (its low byte is the space
\* byte), sample 800 with the five unused bits set, 0, the terminator bytes
\* and 2047.
SamplePairs == { << 3, 32 >>, << 251, 32 >>, << 0, 0 >>, << 13, 10 >>,
                 << 7, 255 >> }

\* Payloads of n samples: all pairs equal and, for scans of up to
\* MaxVariedPoints points, all but the first or all but the last.
Payloads(n) ==
    { [i \in 1..(2 * n) |->
          LET j == (i + 1) \div 2
          IN  (IF j = k THEN other ELSE base)[((i - 1) % 2) + 1]] :
        base \in SamplePairs, other \in SamplePairs,
        k \in IF n <= MaxVariedPoints THEN { 0, 1, n } ELSE { 0 } }

\* The two bytes that follow the samples in the payload segment (the driver
\* drops the segment's last two bytes before decoding).
PayloadTrailer == << 255, 255 >>

\* The correctly shaped replies to a scan of n points: the echo segment, the
\* payload segment and the "complete" segment; the driver makes four reads,
\* so either an empty line comes with them or the fourth read times out.
ShapedScanReply(command, index, payload, how) ==
    Arrives(<< EchoSegment(command, index), payload \o PayloadTrailer,
               Ascii("complete") >>, how)

\* The scan configurations tried: every combination of frequencies around
\* each limit, and the attenuations and tracking modes on a two-point scan.
ScanConfigs ==
    { Cfg(start, stop, step, 0, FALSE) :
        start \in { Hz(999990), Hz(1000000), Hz(1500000000) },
        stop  \in { Hz(1000000), Hz(1002000), Hz(2999000), Hz(3000000),
                    Hz(1700000000), MaxFreq, MaxFreq + 1 },
        step  \in { Hz(990), Hz(1000), Hz(2000), Hz(1000000),
                    Hz(200000000) } }
    \cup { Cfg(DefaultCfg.start, DefaultCfg.stop, Hz(200000000),
               attenuation, tracking) :
             attenuation \in { -31, -30, -1, 0, 1 },
             tracking \in BOOLEAN }

Frequencies == { Hz(1000000), Hz(1500000000) }
Amplitudes == -26..-14

\* A call: the operation, its argument, the bytes the device answers with
\* and, when the answer is a correctly shaped scan reply, its payload.
In(op, frequency, amplitude, cfg, reply, shaped, payload) ==
    [op |-> op, frequency |-> frequency, amplitude |-> amplitude,
     cfg |-> cfg, reply |-> reply, shaped |-> shaped, payload |-> payload]

Arbitrary(op, frequency, amplitude, cfg, reply) ==
    In(op, frequency, amplitude, cfg, reply, FALSE, << >>)

NoInput == Arbitrary("none", 0, 0, DefaultCfg, << >>)

ScanInputs(cfg, index) ==
    LET command == scan_command(cfg.tracking)
        n == num_points(cfg.start, cfg.stop, cfg.step)
    IN  IF validate(cfg.start, cfg.stop, cfg.step, cfg.attenuation) # "ok"
        THEN { Arbitrary("get_scan_range", 0, 0, cfg, << >>) }
        ELSE { Arbitrary("get_scan_range", 0, 0, cfg, reply) :
                 reply \in ArbitraryReplies(command, index) }
             \cup (IF n <= MaxShapedPoints
                   THEN { In("get_scan_range", 0, 0, cfg,
                             ShapedScanReply(command, index, payload, how),
                             TRUE, payload) :
                            payload \in Payloads(n),
                            how \in { "plain", "lead", "tail" } }
                   ELSE { })

\* The calls tried on a session whose package index is index.
Inputs(index) ==
    { Arbitrary("on", 0, 0, DefaultCfg, reply) :
        reply \in ArbitraryReplies(GENERATOR_ON, index) }
    \cup { Arbitrary("off", 0, 0, DefaultCfg, reply) :
        reply \in ArbitraryReplies(GENERATOR_OFF, index) }
    \cup { Arbitrary("set_frequency", frequency, 0, DefaultCfg, reply) :
        frequency \in Frequencies,
        reply \in ArbitraryReplies(GENERATOR_SET_FREQUENCY, index) }
    \cup UNION { { Arbitrary("set_amplitude", 0, amplitude, DefaultCfg, reply) :
                     reply \in IF amplitude_in_range(amplitude)
                               THEN ArbitraryReplies(GENERATOR_SET_AMPLITUDE,
                                                     index)
                               ELSE { << >> } } :
                 amplitude \in Amplitudes }
    \cup UNION { ScanInputs(cfg, index) : cfg \in ScanConfigs }

\* The session as earlier calls of on() left it: index requests written.
InitSession(index) ==
    /\ package_index = index
    /\ wire_idx = [i \in 1..index |-> i - 1]
    /\ wire_last = IF index = 0 THEN NoRequest
                   ELSE Request(GENERATOR_ON, << >>, index - 1)

----------------------------------------------------------------------------
(* SpecCall: one call, of every kind, with every argument and reply above *)

InitCall ==
    /\ serial_is_open = TRUE
    /\ \E index \in 0..MaxIndex :
          /\ InitSession(index)
          /\ input \in Inputs(index)
    /\ call = NoCall
    /\ NoThreads

Pending(op) == call = NoCall /\ input.op = op

CallOn == Pending("on") /\ on(input.reply) /\ UNCHANGED << input, tvars >>

CallOff == Pending("off") /\ off(input.reply) /\ UNCHANGED << input, tvars >>

CallSetFrequency ==
    /\ Pending("set_frequency")
    /\ set_frequency(input.frequency, input.reply)
    /\ UNCHANGED << input, tvars >>

CallSetAmplitude ==
    /\ Pending("set_amplitude")
    /\ set_amplitude(input.amplitude, input.reply)
    /\ UNCHANGED << input, tvars >>

CallGetScanRange ==
    /\ Pending("get_scan_range")
    /\ get_scan_range(input.cfg, input.reply)
    /\ UNCHANGED << input, tvars >>

NextCall ==
    \/ CallOn
    \/ CallOff
    \/ CallSetFrequency
    \/ CallSetAmplitude
    \/ CallGetScanRange

SpecCall == InitCall /\ [][NextCall]_vars

----------------------------------------------------------------------------
(* Claims about one call (SpecCall) *)

ScanCalled == call.op = "get_scan_range"

CalledPoints == num_points(input.cfg.start, input.cfg.stop, input.cfg.step)

\* C2: for every accepted scan configuration and every correctly shaped
\* response (echo segment, payload segment carrying numPoints samples,
\* "complete" segment), whatever the payload bytes are, get_scan_range returns
\* exactly numPoints amplitudes.
C2_ShapedReplyGivesNumPoints ==
    (ScanCalled /\ call.wrote /\ input.shaped)
        => /\ call.result.kind = "list"
           /\ Len(call.result.val) = CalledPoints

\* The payload encodes sample 800 in every byte pair.
ConstantSample800(payload) ==
    \A k \in 1..(Len(payload) \div 2) :
        (payload[2 * k - 1] * 256 + payload[2 * k]) % 2048 = 800

\* C3: the default scan (1.5 GHz to 1.7 GHz in 1 MHz steps, attenuation 0, no
\* tracking) is accepted and, given a well-formed response whose payload is 402
\* bytes encoding sample 800 in every pair, returns 201 amplitudes all 0.0 dBm.
C3_DefaultScanOfSample800 ==
    (ScanCalled /\ input.cfg = DefaultCfg /\ input.shaped
       /\ Len(input.payload) = 402 /\ ConstantSample800(input.payload))
        => /\ call.wrote
           /\ call.result = List([k \in 1..201 |-> 0])

\* C5: when fewer terminators than the command's segment count arrive before
\* the read timeout, the call fails with a ProtocolTimeout outcome; a partly
\* received response is never treated as a complete one.
C5_ShortResponseIsProtocolTimeout ==
    (call.wrote /\ call.timeouts > 0)
        => call.result = Raise("ProtocolTimeout")

\* C6: whatever the decoded response is (no field-group at all included), an
\* operation whose response does not match returns its failure value (false or
\* null); no exception reaches the caller.
C6_MismatchReturnsFailureValue ==
    call.wrote => call.result.kind # "raise"

\* The rejection conditions as the validator's contract lists them.
Rejected(cfg) ==
    \/ cfg.start < MinFreq \/ cfg.start > MaxFreq
    \/ cfg.stop < MinFreq \/ cfg.stop > MaxFreq
    \/ cfg.start >= cfg.stop
    \/ cfg.step < MinStep
    \/ cfg.step > cfg.stop - cfg.start
    \/ ((cfg.stop - cfg.start) \div cfg.step) + 1 > 2000
    \/ cfg.attenuation < -30 \/ cfg.attenuation > 0

\* C10: get_scan_range rejects (returns null before any I/O) if and only if
\* one of the listed conditions holds; every other configuration goes on to
\* write its request.
C10_RejectsIffOutOfBounds ==
    ScanCalled =>
        /\ Rejected(input.cfg) => (~call.wrote /\ call.result = None)
        /\ ~Rejected(input.cfg) => call.wrote

\* A scan of exactly 2000 points was accepted and written.
C10_Witness ==
    /\ ScanCalled /\ call.wrote
    /\ CalledPoints = 2000

\* C11: when get_scan_range rejects a configuration on validation, it returns
\* null, writes nothing to the transport, reads nothing from it and leaves the
\* package index unchanged.
C11_RejectedScanDoesNoIO ==
    [][(Pending("get_scan_range") /\ Rejected(input.cfg))
          => /\ call'.result = None
             /\ ~call'.wrote /\ call'.reads = 0
             /\ package_index' = package_index
             /\ wire_idx' = wire_idx /\ wire_last' = wire_last]_vars

\* A scan rejected by the last of the checks, the attenuation's.
C11_Witness ==
    /\ ScanCalled /\ call.result = None /\ ~call.wrote
    /\ input.cfg.attenuation = -31

\* The response has at least 3 field-groups, the last one's first token is
\* "complete" and the first one's first token is the wire token.
ScanResponseMatches(response, token) ==
    /\ Len(response) >= 3
    /\ response[Len(response)][1] = Ascii("complete")
    /\ response[1][1] = Ascii(token)

\* C12: for an accepted configuration, get_scan_range returns the amplitudes
\* decoded from the second field-group's first byte string less its last two
\* bytes exactly when the response matches (at least 3 field-groups, "complete"
\* last, the wire token first); in every other case it returns null.
C12_AmplitudesIffResponseMatches ==
    (ScanCalled /\ call.wrote) =>
        IF ScanResponseMatches(call.response, wire_last.command)
        THEN LET payload == call.response[2][1]
             IN  call.result =
                   List(decode_data(SubSeq(payload, 1, Len(payload) - 2),
                                    input.cfg.attenuation))
        ELSE call.result = None

\* C14: for an accepted configuration, get_scan_range writes exactly one
\* request: scn22 when tracking, scn20 otherwise, with the arguments start,
\* stop, step, 200, 20, 10700000, attenuation*100 + 10000 in this order.
C14_ScanRequest ==
    [][(Pending("get_scan_range") /\ ~Rejected(input.cfg))
          => /\ Len(wire_idx') = Len(wire_idx) + 1
             /\ wire_last'.command =
                  (IF input.cfg.tracking THEN "scn22" ELSE "scn20")
             /\ wire_last'.args =
                  << input.cfg.start, input.cfg.stop, input.cfg.step,
                     200, 20, 10700000,
                     input.cfg.attenuation * 100 + 10000 >>]_vars

\* A tracking scan with attenuation -30 was written: scn22 ... 7000.
C14_Witness ==
    /\ ScanCalled /\ call.wrote
    /\ input.cfg.tracking /\ input.cfg.attenuation = -30
    /\ wire_last.command = SCAN_RANGE_TRACKING
    /\ wire_last.args[7] = 7000

\* The written form of the arguments, joined by single spaces.
RECURSIVE JoinArgs(_, _, _)
JoinArgs(command, args, i) ==
    IF i > Len(args) THEN << >>
    ELSE arg_ascii(command, i, args[i])
         \o (IF i < Len(args) THEN Ascii(" ") ELSE << >>)
         \o JoinArgs(command, args, i + 1)

\* C15: the bytes written for wire token t, arguments args and package index
\* p are the ASCII of t + " " + join(args, " ") + " " + p + "\r\n", also when
\* args is empty (gon, gof).
C15_BytesAreTokenArgsIndex ==
    call.wrote =>
        wire_last.bytes =
            Ascii(wire_last.command) \o Ascii(" ")
            \o JoinArgs(wire_last.command, wire_last.args, 1)
            \o Ascii(" ") \o DecimalAscii(wire_last.index)
            \o Ascii("\r\n")

\* C15 amended: the bytes written are the ASCII of t, then the arguments
\* joined by single spaces between two single spaces when there are any, or
\* one single space when there are none, then p and "\r\n".
C15_BytesSingleSpaced ==
    call.wrote =>
        wire_last.bytes =
            Ascii(wire_last.command)
            \o (IF wire_last.args = << >> THEN Ascii(" ")
                ELSE Ascii(" ")
                     \o JoinArgs(wire_last.command, wire_last.args, 1)
                     \o Ascii(" "))
            \o DecimalAscii(wire_last.index) \o Ascii("\r\n")

\* on() on a session of index 1 wrote the seven bytes of "gon 1\r\n".
C15_Witness ==
    /\ call.op = "on" /\ call.wrote
    /\ wire_last.bytes = << 103, 111, 110, 32, 49, 13, 10 >>

\* C16: for every dbm from -25 to -15, set_amplitude sends the parameter
\* (dbm + 15) * 100 + 10000, and the parameter is in 10000..11000.
C16_ParameterIn10000To11000 ==
    (call.op = "set_amplitude" /\ -25 <= input.amplitude
       /\ input.amplitude <= -15)
        => /\ call.wrote
           /\ wire_last.args = << (input.amplitude + 15) * 100 + 10000 >>
           /\ 10000 <= wire_last.args[1] /\ wire_last.args[1] <= 11000

\* C16 amended: for every dbm from -25 to -15, set_amplitude sends the
\* parameter (dbm + 15) * 100 + 10000, and the parameter is in 9000..10000.
C16_ParameterIn9000To10000 ==
    (call.op = "set_amplitude" /\ -25 <= input.amplitude
       /\ input.amplitude <= -15)
        => /\ call.wrote
           /\ wire_last.args = << (input.amplitude + 15) * 100 + 10000 >>
           /\ 9000 <= wire_last.args[1] /\ wire_last.args[1] <= 10000

\* set_amplitude(-25) wrote "sga 9000 0\r\n".
C16_Witness ==
    /\ call.op = "set_amplitude" /\ input.amplitude = -25
    /\ wire_last.bytes =
         << 115, 103, 97, 32, 57, 48, 48, 48, 32, 48, 13, 10 >>

\* The response's last field-group starts with "complete" and its first one
\* with the wire token.
ResponseMatches(response, token) ==
    /\ Len(response) > 0
    /\ response[Len(response)][1] = Ascii("complete")
    /\ response[1][1] = Ascii(token)

\* C17: set_amplitude with dbm below -25 or above -15 returns false, writes
\* and reads nothing and leaves the package index unchanged; with dbm from -25
\* to -15 it returns true if and only if the response's last field-group starts
\* with "complete" and its first one with sga.
C17_SetAmplitude ==
    [][Pending("set_amplitude")
          => IF input.amplitude < -25 \/ input.amplitude > -15
             THEN /\ call'.result = Bool(FALSE)
                  /\ ~call'.wrote /\ call'.reads = 0
                  /\ package_index' = package_index
                  /\ wire_idx' = wire_idx /\ wire_last' = wire_last
             ELSE call'.result = Bool(TRUE)
                    <=> ResponseMatches(call'.response, "sga")]_vars

\* set_amplitude(-14) was rejected.
C17_Witness ==
    /\ call.op = "set_amplitude" /\ input.amplitude = -14
    /\ call.result = Bool(FALSE) /\ ~call.wrote

\* C18: on() returns true if and only if its response's last field-group
\* starts with "complete" and its first one with gon; off() likewise with gof.
C18_OnOffTrueIffMatch ==
    /\ call.op = "on"
         => (call.result = Bool(TRUE) <=> ResponseMatches(call.response, "gon"))
    /\ call.op = "off"
         => (call.result = Bool(TRUE) <=> ResponseMatches(call.response, "gof"))

\* on() returned false on a response that ends with "complete" and starts
\* with another token than gon.
C18_Witness ==
    /\ call.op = "on" /\ call.result = Bool(FALSE)
    /\ Len(call.response) = 2
    /\ call.response[2][1] = Ascii("complete")
    /\ call.response[1][1] = Ascii("success")

\* C19: set_frequency(hz) sends scf with hz as its only argument and returns
\* true if and only if the response has exactly 3 field-groups that start with
\* scf, "success" and "complete"; with another number of field-groups it
\* returns false.
C19_SetFrequency ==
    [][Pending("set_frequency")
          => /\ Len(wire_idx') = Len(wire_idx) + 1
             /\ wire_last'.command = "scf"
             /\ wire_last'.args = << input.frequency >>
             /\ call'.result = Bool(TRUE)
                  <=> /\ Len(call'.response) = 3
                      /\ call'.response[1][1] = Ascii("scf")
                      /\ call'.response[2][1] = Ascii("success")
                      /\ call'.response[3][1] = Ascii("complete")
             /\ Len(call'.response) # 3 => call'.result = Bool(FALSE)]_vars

\* set_frequency returned true.
C19_Witness ==
    /\ call.op = "set_frequency" /\ call.result = Bool(TRUE)
    /\ Len(call.response) = 3
    /\ wire_last.args = << input.frequency >>

----------------------------------------------------------------------------
(* Spec: any sequence of calls by a single caller on one session *)

\* The reply of a device that answers as the driver expects.
GoodReply(command, index, payload) ==
    CASE command = GENERATOR_SET_FREQUENCY ->
             Lines(<< EchoSegment(command, index), Ascii("success"),
                      Ascii("complete") >>)
      [] command \in { SCAN_RANGE, SCAN_RANGE_TRACKING } ->
             ShapedScanReply(command, index, payload, "tail")
      [] OTHER ->
             Lines(<< EchoSegment(command, index), Ascii("complete") >>)

\* Well-formed, absent, short (the last terminator missing) and malformed.
SeqReplies(command, index, payload) ==
    { GoodReply(command, index, payload),
      << >>,
      DropLast2(GoodReply(command, index, payload)),
      Lines(<< JunkSegment, Ascii("complete") >>) }

TwoPointCfg == Cfg(Hz(1500000000), Hz(1700000000), Hz(200000000), 0, FALSE)

SeqConfigs == { TwoPointCfg,
                Cfg(Hz(1500000000), Hz(1700000000), Hz(200000000), -31, TRUE) }

Init ==
    /\ serial_is_open = TRUE
    /\ InitSession(0)
    /\ input = NoInput
    /\ call = NoCall
    /\ NoThreads

MayWrite == package_index < MaxCalls

On ==
    /\ MayWrite
    /\ \E reply \in SeqReplies(GENERATOR_ON, package_index, << >>) :
          /\ on(reply)
          /\ input' = Arbitrary("on", 0, 0, DefaultCfg, reply)
    /\ UNCHANGED tvars

Off ==
    /\ MayWrite
    /\ \E reply \in SeqReplies(GENERATOR_OFF, package_index, << >>) :
          /\ off(reply)
          /\ input' = Arbitrary("off", 0, 0, DefaultCfg, reply)
    /\ UNCHANGED tvars

SetFrequency ==
    /\ MayWrite
    /\ \E reply \in SeqReplies(GENERATOR_SET_FREQUENCY, package_index, << >>) :
          /\ set_frequency(Hz(1500000000), reply)
          /\ input' = Arbitrary("set_frequency", Hz(1500000000), 0,
                                DefaultCfg, reply)
    /\ UNCHANGED tvars

SetAmplitude ==
    /\ MayWrite
    /\ \E amplitude \in { -15, -14 } :
       \E reply \in SeqReplies(GENERATOR_SET_AMPLITUDE, package_index, << >>) :
          /\ set_amplitude(amplitude, reply)
          /\ input' = Arbitrary("set_amplitude", 0, amplitude, DefaultCfg,
                                IF amplitude_in_range(amplitude)
                                THEN reply ELSE << >>)
    /\ UNCHANGED tvars

GetScanRange ==
    /\ MayWrite
    /\ \E cfg \in SeqConfigs :
       \E reply \in SeqReplies(scan_command(cfg.tracking), package_index,
                               << 0, 0, 7, 255 >>) :
          /\ get_scan_range(cfg, reply)
          /\ input' = Arbitrary("get_scan_range", 0, 0, cfg,
                                IF Rejected(cfg) THEN << >> ELSE reply)
    /\ UNCHANGED tvars

Close == close /\ input' = NoInput /\ UNCHANGED tvars

Next ==
    \/ On
    \/ Off
    \/ SetFrequency
    \/ SetAmplitude
    \/ GetScanRange
    \/ Close

Spec == Init /\ [][Next]_vars

----------------------------------------------------------------------------
(* Claims about sequences of calls (Spec) *)

\* The call's arguments fail the operation's own check, made before any I/O.
ArgumentsRejected(in) ==
    \/ in.op = "set_amplitude" /\ (in.amplitude < -25 \/ in.amplitude > -15)
    \/ in.op = "get_scan_range" /\ Rejected(in.cfg)

FailureValue(op) == IF op = "get_scan_range" THEN None ELSE Bool(FALSE)

\* C7 as stated: once close() has disconnected the session, every operation
\* fails with the not-connected outcome, writes nothing and leaves the package
\* index unchanged.
C7_EveryCallOnClosedIsNotConnected ==
    [][ (~serial_is_open /\ call'.op # "close")
          => /\ call'.result = Raise("PortNotOpenError")
             /\ ~call'.wrote
             /\ wire_idx' = wire_idx
             /\ package_index' = package_index ]_vars

\* C7 as amended: once close() has disconnected the session, an operation whose
\* arguments pass its own checks fails with the transport's port-not-open
\* error, and one whose arguments do not returns its failure value as on an
\* open session; either way nothing is written and the package index is
\* unchanged.
C7_ClosedSessionDoesNoIO ==
    [][ (~serial_is_open /\ call'.op # "close")
          => /\ call'.result = IF ArgumentsRejected(input')
                               THEN FailureValue(call'.op)
                               ELSE Raise("PortNotOpenError")
             /\ ~call'.wrote
             /\ wire_idx' = wire_idx
             /\ wire_last' = wire_last
             /\ package_index' = package_index ]_vars

\* on() was called on a session closed after two requests.
C7_Witness ==
    /\ ~serial_is_open
    /\ package_index = 2
    /\ call.op = "on"
    /\ call.result = Raise("PortNotOpenError")

\* C8: the package index equals the number of requests written so far: every
\* write raises it by one whatever the response is, and calls rejected before
\* any I/O leave it unchanged.
C8_IndexCountsRequests ==
    /\ package_index = Len(wire_idx)
    /\ call.op \in { "on", "off", "set_frequency", "set_amplitude",
                     "get_scan_range" }
          => (call.wrote <=> (serial_is_open /\ ~ArgumentsRejected(input)))

\* Three requests were written and the last one got no answer at all.
C8_Witness ==
    /\ Len(wire_idx) = 3
    /\ call.wrote
    /\ call.timeouts = command_count_terminate(wire_last.command)
    /\ call.response = << >>

\* C30: the session is connected from its construction until close() is
\* called: no other operation closes it, whatever it returns or raises; once
\* closed, is_connected() is false after every later operation; and a
\* close() of a closed session changes nothing of the session.
C30_ConnectedUntilClose ==
    [][ /\ (is_connected /\ call'.op # "close") => is_connected'
        /\ call'.op = "close" => ~is_connected'
        /\ ~is_connected => ~is_connected'
        /\ (~is_connected /\ call'.op = "close")
              => UNCHANGED << serial_is_open, package_index, wire_idx,
                              wire_last >>
      ]_vars

\* An operation was called on the closed session, which is still closed.
C30_Witness ==
    /\ ~is_connected
    /\ call.op \notin { "none", "close" }

\* The expected number of response segments of an operation's command.
SegmentCount(op) ==
    CASE op \in { "on", "off", "set_amplitude" } -> 2
      [] op = "set_frequency" -> 3
      [] op = "get_scan_range" -> 4

Operations == { "on", "off", "set_frequency", "set_amplitude",
                "get_scan_range" }

\* The operation just called has written one request, and no more, and has
\* made the read attempts of its command.
OneWriteThenReads ==
    /\ call'.wrote
    /\ Len(wire_idx') = Len(wire_idx) + 1
    /\ call'.reads = SegmentCount(call'.op)

\* C33 as stated: every operation whose arguments pass its checks makes
\* exactly one write and then exactly SegmentCount read attempts.
C33_OneWriteThenReadsAlways ==
    [][ (call'.op \in Operations /\ ~ArgumentsRejected(input'))
          => OneWriteThenReads ]_vars

\* C33, amended: on an open session, every operation whose arguments pass
\* its checks makes exactly one write and then exactly SegmentCount read
\* attempts (2 for gon, gof and sga, 3 for scf, 4 for scn20 and scn22),
\* whatever the response contains: complete, absent, cut short or malformed.
C33_OneWriteThenReadsWhenOpen ==
    [][ (serial_is_open /\ call'.op \in Operations
         /\ ~ArgumentsRejected(input'))
          => OneWriteThenReads ]_vars

\* A scan whose request got no answer has made its four read attempts, all
\* timed out, after its one write.
C33_Witness ==
    /\ serial_is_open
    /\ call.op = "get_scan_range" /\ call.wrote
    /\ call.reads = 4 /\ call.timeouts = 4



----------------------------------------------------------------------------
(* SpecThreads: the GUI thread and the scan thread on one session.  A device  *)
(* call is a sequence of steps, so that the two threads' calls interleave:    *)
(* the write, the two halves of `self.__package_index += 1`, each read_until  *)
(* and the end of the call.                                                   *)

MaxOperations == 2    \* device operations started, by the two threads together

\* The scans the GUI's inputs are set to: one of three points, and one whose
\* step is larger than its range (the GUI does not check that, the driver does).
GuiConfigs ==
    { Cfg(Hz(1500000000), Hz(1700000000), Hz(100000000), 0, FALSE),
      Cfg(Hz(1500000000), Hz(1550000000), Hz(100000000), 0, FALSE) }

GuiSweep == Cfg(Hz(1500000000), Hz(1700000000), Hz(100000000), 0, FALSE)

GuiAmplitudes == { -20 }

\* One sample, of -0.1 dBm, whose first byte has bits above the 11 of data
DeviceSample == << 251, 33 >>

DevicePayload(n) == [i \in 1..(2 * n) |-> DeviceSample[2 - (i % 2)]]

\* What the device puts in the input buffer after a request.  In this
\* specification the device answers every request, and correctly: what goes
\* wrong is the threads' doing.
DeviceReply(command, index, cfg) ==
    GoodReply(command, index,
              DevicePayload(num_points(cfg.start, cfg.stop, cfg.step)))

\* Thread t enters send_command from operation op.
BeginCall(t, op, command, args, cfg, then) ==
    /\ loc' = [loc EXCEPT ![t] =
                 [op |-> op, command |-> command, args |-> args, cfg |-> cfg,
                  tmp |-> 0, reads_left |-> 0, msg |-> << >>,
                  result |-> None, then |-> then]]
    /\ pc' = [pc EXCEPT ![t] = "write"]

\* Thread t's operation returns result without any I/O.
ReturnEarly(t, op, cfg, result) ==
    /\ loc' = [loc EXCEPT ![t] =
                 [NoLocal EXCEPT !.op = op, !.cfg = cfg, !.result = result]]
    /\ pc' = [pc EXCEPT ![t] = "return"]

\* ArinstDevice.get_scan_range entered by thread t
BeginScan(t, cfg) ==
    IF validate(cfg.start, cfg.stop, cfg.step, cfg.attenuation) = "ok"
    THEN BeginCall(t, "get_scan_range", scan_command(cfg.tracking),
                   scan_args(cfg), cfg, "none")
    ELSE ReturnEarly(t, "get_scan_range", cfg, None)

\* ArinstDevice._write, lines 61-62: the message is built with the current
\* package index and written; the device answers (or does not).
Write(t) ==
    /\ pc[t] = "write"
    /\ IF ~serial_is_open
       THEN /\ loc' = [loc EXCEPT ![t].result = Raise("PortNotOpenError")]
            /\ pc' = [pc EXCEPT ![t] = "return"]
            /\ UNCHANGED << wire_idx, wire_last, rx >>
       ELSE /\ wire_idx' = Append(wire_idx, package_index)
            /\ wire_last' = Request(loc[t].command, loc[t].args,
                                     package_index)
            /\ rx' = rx \o DeviceReply(loc[t].command, package_index,
                                       loc[t].cfg)
            /\ pc' = [pc EXCEPT ![t] = "incr_load"]
            /\ UNCHANGED loc
    /\ UNCHANGED << serial_is_open, package_index, input, call, running,
                    scan_config, gui, signals, sleep_ms, budget >>
    /\ UNCHANGED rvars

\* ArinstDevice._write, line 63, first half: the index is read
IncrLoad(t) ==
    /\ pc[t] = "incr_load"
    /\ loc' = [loc EXCEPT ![t].tmp = package_index]
    /\ pc' = [pc EXCEPT ![t] = "incr_store"]
    /\ UNCHANGED << svars, rx, running, scan_config, gui, signals, sleep_ms,
                    budget >>
    /\ UNCHANGED rvars

\* ArinstDevice._write, line 63, second half: the index read plus one is stored
IncrStore(t) ==
    /\ pc[t] = "incr_store"
    /\ package_index' = loc[t].tmp + 1
    /\ loc' = [loc EXCEPT ![t].reads_left =
                              command_count_terminate(loc[t].command)]
    /\ pc' = [pc EXCEPT ![t] = "read"]
    /\ UNCHANGED << serial_is_open, wire_idx, wire_last, input, call, rx,
                    running, scan_config, gui, signals, sleep_ms, budget >>
    /\ UNCHANGED rvars

\* ArinstDevice._read, line 68: one read_until on the shared input buffer
ReadUntil(t) ==
    /\ pc[t] = "read"
    /\ LET r == read_until(rx)
       IN  /\ rx' = r.rest
           /\ loc' = [loc EXCEPT ![t].msg = @ \o r.data,
                                 ![t].reads_left = @ - 1]
    /\ pc' = [pc EXCEPT ![t] = IF loc[t].reads_left = 1 THEN "finish"
                               ELSE "read"]
    /\ UNCHANGED << svars, running, scan_config, gui, signals, sleep_ms,
                    budget >>
    /\ UNCHANGED rvars

\* ArinstDevice._read, lines 70-72, and the rest of the operation: the input
\* buffer is reset, the bytes read are decoded and the operation returns.
Finish(t) ==
    /\ pc[t] = "finish"
    /\ rx' = << >>
    /\ loc' = [loc EXCEPT ![t].result =
                 result_of(loc[t].op, loc[t].command, loc[t].cfg.attenuation,
                           decode_response(loc[t].msg))]
    /\ pc' = [pc EXCEPT ![t] = "return"]
    /\ UNCHANGED << svars, running, scan_config, gui, signals, sleep_ms,
                    budget >>
    /\ UNCHANGED rvars

\* SpectrumThread.run, lines 66-72: the parameters of one scan
scan_params(sc) ==
    Cfg(IF sc.start_freq # Absent THEN sc.start_freq ELSE sc.start,
        IF sc.stop_freq # Absent THEN sc.stop_freq ELSE sc.stop,
        IF sc.step_freq # Absent THEN sc.step_freq ELSE sc.step,
        sc.attenuation, sc.tracking)

\* The top of the loop without the test of the stop flag.
LoopTop_without_flag_test ==
    /\ pc["loop"] = "top"
    /\ budget > 0
    /\ BeginScan("loop", scan_params(scan_config))
    /\ budget' = budget - 1
    /\ UNCHANGED << svars, rx, running, scan_config, gui, signals, sleep_ms >>
    /\ UNCHANGED rvars

\* SpectrumThread.run, lines 63-74: the top of the loop and the scan call
LoopTop ==
    /\ pc["loop"] = "top"
    /\ IF running
       THEN /\ budget > 0
            /\ BeginScan("loop", scan_params(scan_config))
            /\ budget' = budget - 1
       ELSE /\ pc' = [pc EXCEPT !["loop"] = "done"]
            /\ UNCHANGED << loc, budget >>
    /\ UNCHANGED << svars, rx, running, scan_config, gui, signals, sleep_ms >>
    /\ UNCHANGED rvars

\* The frequency axis counted from one step above the start.
frequency_axis_from_first_step(start_freq, step_freq, num) ==
    [i \in 1..num |-> start_freq + i * step_freq]

\* SpectrumThread.run, line 80:
\* [start_freq + i * step_freq for i in range(num_points)]
frequency_axis(start_freq, step_freq, num) ==
    [i \in 1..num |-> start_freq + (i - 1) * step_freq]

Frame(frequencies, amplitudes) ==
    [kind |-> "frame", text |-> "", frequencies |-> frequencies,
     amplitudes |-> amplitudes]

\* scan_error.emit(text), lines 93 and 98
ErrorSignal(text) ==
    [kind |-> "error", text |-> text, frequencies |-> << >>,
     amplitudes |-> << >>]

\* `if amplitudes:` is true of a list that is not empty.
Truthy(result) == result.kind = "list" /\ Len(result.val) > 0

\* After the scan call, with no sleep after a frame.
LoopAfterScan_without_throttle ==
    /\ pc["loop"] = "return"
    /\ LET result == loc["loop"].result
           cfg == loc["loop"].cfg
       IN  IF result.kind = "raise"
           THEN /\ signals' = Append(signals, ErrorSignal("Scan error"))
                /\ sleep_ms' = 1000
           ELSE IF Truthy(result)
           THEN /\ signals' = Append(signals,
                      Frame(frequency_axis(cfg.start, cfg.step,
                                           Len(result.val)),
                            result.val))
                /\ sleep_ms' = 0
           ELSE /\ signals' = Append(signals, ErrorSignal("No data received"))
                /\ sleep_ms' = 50
    /\ pc' = [pc EXCEPT !["loop"] = "sleep"]
    /\ UNCHANGED << svars, rx, loc, running, scan_config, gui, budget >>
    /\ UNCHANGED rvars

\* After the scan call, with nothing emitted when the scan returned no data.
LoopAfterScan_silent_without_data ==
    /\ pc["loop"] = "return"
    /\ LET result == loc["loop"].result
           cfg == loc["loop"].cfg
       IN  IF result.kind = "raise"
           THEN /\ signals' = Append(signals, ErrorSignal("Scan error"))
                /\ sleep_ms' = 1000
           ELSE IF Truthy(result)
           THEN /\ signals' = Append(signals,
                      Frame(frequency_axis(cfg.start, cfg.step,
                                           Len(result.val)),
                            result.val))
                /\ sleep_ms' = 50
           ELSE /\ signals' = signals
                /\ sleep_ms' = 50
    /\ pc' = [pc EXCEPT !["loop"] = "sleep"]
    /\ UNCHANGED << svars, rx, loc, running, scan_config, gui, budget >>
    /\ UNCHANGED rvars

\* After the scan call, with an exception of the scan call ending run().
LoopAfterScan_exception_ends_run ==
    /\ pc["loop"] = "return"
    /\ LET result == loc["loop"].result
           cfg == loc["loop"].cfg
       IN  IF result.kind = "raise"
           THEN /\ signals' = Append(signals, ErrorSignal("Scan error"))
                /\ sleep_ms' = 0
                /\ pc' = [pc EXCEPT !["loop"] = "done"]
           ELSE IF Truthy(result)
           THEN /\ signals' = Append(signals,
                      Frame(frequency_axis(cfg.start, cfg.step,
                                           Len(result.val)),
                            result.val))
                /\ sleep_ms' = 50
                /\ pc' = [pc EXCEPT !["loop"] = "sleep"]
           ELSE /\ signals' = Append(signals, ErrorSignal("No data received"))
                /\ sleep_ms' = 50
                /\ pc' = [pc EXCEPT !["loop"] = "sleep"]
    /\ UNCHANGED << svars, rx, loc, running, scan_config, gui, budget >>
    /\ UNCHANGED rvars

\* SpectrumThread.run, lines 76-99: after the scan call, a frame or an error
\* is emitted and the thread sleeps: 1000 ms when the call raised, 50 ms
\* otherwise.
LoopAfterScan ==
    /\ pc["loop"] = "return"
    /\ LET result == loc["loop"].result
           cfg == loc["loop"].cfg
       IN  IF result.kind = "raise"
           THEN /\ signals' = Append(signals, ErrorSignal("Scan error"))
                /\ sleep_ms' = 1000
           ELSE IF Truthy(result)
           THEN /\ signals' = Append(signals,
                      Frame(frequency_axis(cfg.start, cfg.step,
                                           Len(result.val)),
                            result.val))
                /\ sleep_ms' = 50
           ELSE /\ signals' = Append(signals, ErrorSignal("No data received"))
                /\ sleep_ms' = 50
    /\ pc' = [pc EXCEPT !["loop"] = "sleep"]
    /\ UNCHANGED << svars, rx, loc, running, scan_config, gui, budget >>
    /\ UNCHANGED rvars

\* SpectrumThread.run: msleep returns
LoopWake ==
    /\ pc["loop"] = "sleep"
    /\ pc' = [pc EXCEPT !["loop"] = "top"]
    /\ loc' = [loc EXCEPT !["loop"] = NoLocal]
    /\ sleep_ms' = 0
    /\ UNCHANGED << svars, rx, running, scan_config, gui, signals, budget >>
    /\ UNCHANGED rvars

GuiIdle == pc["gui"] = "idle"

GuiMayCall == GuiIdle /\ gui.device /\ budget > 0

\* EnhancedSpectrumAnalyzer.generator_on
generator_on ==
    /\ GuiMayCall
    /\ BeginCall("gui", "on", GENERATOR_ON, << >>, DefaultCfg, "none")
    /\ budget' = budget - 1
    /\ UNCHANGED << svars, rx, running, scan_config, gui, signals, sleep_ms >>
    /\ UNCHANGED rvars

\* EnhancedSpectrumAnalyzer.generator_off
generator_off ==
    /\ GuiMayCall
    /\ BeginCall("gui", "off", GENERATOR_OFF, << >>, DefaultCfg, "none")
    /\ budget' = budget - 1
    /\ UNCHANGED << svars, rx, running, scan_config, gui, signals, sleep_ms >>
    /\ UNCHANGED rvars

\* EnhancedSpectrumAnalyzer.apply_generator_settings: set_frequency, and
\* set_amplitude after it (see GuiReturn), which makes two device operations
apply_generator_settings ==
    /\ GuiMayCall /\ budget > 1
    /\ BeginCall("gui", "set_frequency", GENERATOR_SET_FREQUENCY,
                 << Hz(1500000000) >>, DefaultCfg, "set_amplitude")
    /\ budget' = budget - 2
    /\ UNCHANGED << svars, rx, running, scan_config, gui, signals, sleep_ms >>
    /\ UNCHANGED rvars

\* EnhancedSpectrumAnalyzer.single_sweep
single_sweep ==
    /\ GuiMayCall
    /\ BeginScan("gui", GuiSweep)
    /\ budget' = budget - 1
    /\ UNCHANGED << svars, rx, running, scan_config, gui, signals, sleep_ms >>
    /\ UNCHANGED rvars

\* The GUI's device call returns (or raises into the handler's except):
\* apply_generator_settings goes on to set_amplitude unless set_frequency
\* raised; every other handler ends.
GuiReturn ==
    /\ pc["gui"] = "return"
    /\ IF loc["gui"].then = "set_amplitude" /\ loc["gui"].result.kind # "raise"
       THEN \E amplitude \in GuiAmplitudes :
               BeginCall("gui", "set_amplitude", GENERATOR_SET_AMPLITUDE,
                         << amplitude_param(amplitude) >>, DefaultCfg, "none")
       ELSE /\ pc' = [pc EXCEPT !["gui"] = "idle"]
            /\ loc' = [loc EXCEPT !["gui"] = NoLocal]
    /\ UNCHANGED << svars, rx, running, scan_config, gui, signals, sleep_ms,
                    budget >>
    /\ UNCHANGED rvars

LoopAlive == pc["loop"] \notin { "none", "done" }

\* EnhancedSpectrumAnalyzer.start_scan with SpectrumThread.__init__,
\* configure_scan and start_scan
start_scan ==
    /\ GuiIdle /\ gui.device
    /\ ~(gui.scan_thread /\ LoopAlive)
    /\ \E cfg \in GuiConfigs :
          scan_config' = [InitScanConfig EXCEPT
                             !.start_freq = cfg.start, !.stop_freq = cfg.stop,
                             !.step_freq = cfg.step,
                             !.attenuation = cfg.attenuation,
                             !.tracking = cfg.tracking]
    /\ running' = TRUE
    /\ pc' = [pc EXCEPT !["loop"] = "top"]
    /\ loc' = [loc EXCEPT !["loop"] = NoLocal]
    /\ gui' = [gui EXCEPT !.scan_thread = TRUE, !.scanning = TRUE]
    /\ UNCHANGED << svars, rx, signals, sleep_ms, budget >>
    /\ UNCHANGED rvars

\* stop_scan waiting for the thread without setting the stop flag.
stop_scan_without_flag ==
    /\ GuiIdle
    /\ IF gui.scan_thread
       THEN /\ pc' = [pc EXCEPT !["gui"] = "wait"]
            /\ loc' = [loc EXCEPT !["gui"].then = "idle"]
            /\ UNCHANGED << gui, running >>
       ELSE /\ gui' = [gui EXCEPT !.scanning = FALSE]
            /\ UNCHANGED << running, pc, loc >>
    /\ UNCHANGED << svars, rx, scan_config, signals, sleep_ms, budget >>
    /\ UNCHANGED rvars

\* EnhancedSpectrumAnalyzer.stop_scan and SpectrumThread.stop_scan up to wait()
stop_scan ==
    /\ GuiIdle
    /\ IF gui.scan_thread
       THEN /\ running' = FALSE
            /\ pc' = [pc EXCEPT !["gui"] = "wait"]
            /\ loc' = [loc EXCEPT !["gui"].then = "idle"]
            /\ UNCHANGED gui
       ELSE /\ gui' = [gui EXCEPT !.scanning = FALSE]
            /\ UNCHANGED << running, pc, loc >>
    /\ UNCHANGED << svars, rx, scan_config, signals, sleep_ms, budget >>
    /\ UNCHANGED rvars

\* EnhancedSpectrumAnalyzer.disconnect_device: stop_scan, then close (here
\* when no scan thread is to be waited for, else in GuiJoin)
disconnect_device ==
    /\ GuiIdle /\ gui.device
    /\ IF gui.scan_thread
       THEN /\ running' = FALSE
            /\ pc' = [pc EXCEPT !["gui"] = "wait"]
            /\ loc' = [loc EXCEPT !["gui"].then = "close"]
            /\ UNCHANGED << gui, serial_is_open >>
       ELSE /\ serial_is_open' = FALSE
            /\ gui' = [device |-> FALSE, scan_thread |-> FALSE,
                       scanning |-> FALSE]
            /\ UNCHANGED << running, pc, loc >>
    /\ UNCHANGED << package_index, wire_idx, wire_last, input, call, rx,
                    scan_config, signals, sleep_ms, budget >>
    /\ UNCHANGED rvars

\* wait() returning while run() may still be running.
GuiJoin_without_waiting ==
    /\ pc["gui"] = "wait"
    /\ pc' = [pc EXCEPT !["gui"] = "idle"]
    /\ loc' = [loc EXCEPT !["gui"] = NoLocal]
    /\ IF loc["gui"].then = "close"
       THEN /\ serial_is_open' = FALSE
            /\ gui' = [device |-> FALSE, scan_thread |-> FALSE,
                       scanning |-> FALSE]
       ELSE /\ gui' = [gui EXCEPT !.scan_thread = FALSE, !.scanning = FALSE]
            /\ UNCHANGED serial_is_open
    /\ UNCHANGED << package_index, wire_idx, wire_last, input, call, rx,
                    running, scan_config, signals, sleep_ms, budget >>
    /\ UNCHANGED rvars

\* QThread.wait() returns once run() has ended; stop_scan then forgets the
\* thread, and disconnect_device closes the device.
GuiJoin ==
    /\ pc["gui"] = "wait"
    /\ ~LoopAlive
    /\ pc' = [pc EXCEPT !["gui"] = "idle"]
    /\ loc' = [loc EXCEPT !["gui"] = NoLocal]
    /\ IF loc["gui"].then = "close"
       THEN /\ serial_is_open' = FALSE
            /\ gui' = [device |-> FALSE, scan_thread |-> FALSE,
                       scanning |-> FALSE]
       ELSE /\ gui' = [gui EXCEPT !.scan_thread = FALSE, !.scanning = FALSE]
            /\ UNCHANGED serial_is_open
    /\ UNCHANGED << package_index, wire_idx, wire_last, input, call, rx,
                    running, scan_config, signals, sleep_ms, budget >>
    /\ UNCHANGED rvars

\* EnhancedSpectrumAnalyzer after connect_device: a new ArinstDevice, no scan
\* thread.
InitThreads ==
    /\ serial_is_open = TRUE
    /\ InitSession(0)
    /\ input = NoInput
    /\ call = NoCall
    /\ rx = << >>
    /\ pc = [t \in Threads |-> IF t = "gui" THEN "idle" ELSE "none"]
    /\ loc = [t \in Threads |-> NoLocal]
    /\ running = FALSE
    /\ scan_config = InitScanConfig
    /\ gui = [device |-> TRUE, scan_thread |-> FALSE, scanning |-> FALSE]
    /\ signals = << >>
    /\ sleep_ms = 0
    /\ budget = MaxOperations
    /\ NoRecording

NextThreads ==
    \/ \E t \in Threads : Write(t)
    \/ \E t \in Threads : IncrLoad(t)
    \/ \E t \in Threads : IncrStore(t)
    \/ \E t \in Threads : ReadUntil(t)
    \/ \E t \in Threads : Finish(t)
    \/ LoopTop
    \/ LoopAfterScan
    \/ LoopWake
    \/ generator_on
    \/ generator_off
    \/ apply_generator_settings
    \/ single_sweep
    \/ GuiReturn
    \/ start_scan
    \/ stop_scan
    \/ disconnect_device
    \/ GuiJoin

SpecThreads == InitThreads /\ [][NextThreads]_vars

\* Finish("loop") seen at the position of the thread: it is the only step of
\* the program that takes the scan thread from "finish" to "return", and it
\* can be taken whenever the thread is at "finish".
LoopFinishes ==
    /\ pc["loop"] = "finish"
    /\ pc' = [pc EXCEPT !["loop"] = "return"]

\* The scan thread is scheduled: a step of run() that can be taken is taken
\* (a write returns, a read returns within the port's timeout, msleep
\* returns), and wait() returns once the thread has ended.
SpecThreadsFair ==
    /\ SpecThreads
    /\ WF_vars(LoopTop)
    /\ WF_vars(Write("loop"))
    /\ WF_vars(IncrLoad("loop"))
    /\ WF_vars(IncrStore("loop"))
    /\ WF_vars(ReadUntil("loop"))
    /\ WF_pc(LoopFinishes)
    /\ WF_vars(LoopAfterScan)
    /\ WF_vars(LoopWake)
    /\ WF_vars(GuiJoin)

----------------------------------------------------------------------------
(* Claims on SpecThreads                                                      *)

\* Thread t has written a request and has not finished reading its response.
InFlight(t) == pc[t] \in { "incr_load", "incr_store", "read" }

\* C1: at most one request is in flight on the transport at any time: no
\* thread writes its request between another thread's write and the end of
\* that thread's reads.
C1_OneRequestInFlight == ~(InFlight("gui") /\ InFlight("loop"))

\* The iteration the scan thread is sleeping after returned no data or raised.
SleepsAfterFailure ==
    pc["loop"] = "sleep" /\ ~Truthy(loc["loop"].result)

\* C4: after an iteration whose scan returned no data or raised, the scan
\* thread sleeps the 1000 ms of the backoff, not the 50 ms of the throttle.
C4_BackoffAfterFailedIteration == SleepsAfterFailure => sleep_ms = 1000

\* C9: the package indices of the requests written to the transport of the
\* session, in the order they were written, are strictly increasing.
C9_IndicesStrictlyIncrease ==
    \A i, j \in 1..Len(wire_idx) : i < j => wire_idx[i] < wire_idx[j]

\* The scan thread emits a signal in this step.
Emits == Len(signals') = Len(signals) + 1

\* C20: every frame the scan thread emits has as many frequencies as
\* amplitudes, and its i-th frequency (counted from 0) is start + i * step,
\* start and step being the arguments of the scan call of that iteration.
C20_FrameAxisFollowsScanCall ==
    [][(Emits /\ Last(signals').kind = "frame")
          => LET frame == Last(signals')
                 start == loc["loop"].args[1]
                 step  == loc["loop"].args[3]
             IN  /\ loc["loop"].op = "get_scan_range"
                 /\ Len(frame.frequencies) = Len(frame.amplitudes)
                 /\ \A i \in 0..(Len(frame.frequencies) - 1) :
                       frame.frequencies[i + 1] = start + i * step]_vars

\* A frame of the three points 1500, 1600 and 1700 MHz has been emitted.
C20_Witness ==
    \E k \in 1..Len(signals) :
        /\ signals[k].kind = "frame"
        /\ signals[k].frequencies =
             << Hz(1500000000), Hz(1600000000), Hz(1700000000) >>
        /\ Len(signals[k].amplitudes) = 3

\* The loop thread is inside get_scan_range.
InScanCall == pc["loop"] \in { "write", "incr_load", "incr_store", "read",
                               "finish" }

\* The loop thread leaves the point where get_scan_range has returned.
AfterScanStep == pc["loop"] = "return" /\ pc'["loop"] # "return"

\* C21: each iteration of the acquisition loop emits exactly one signal, when
\* its scan call has returned: a frame carrying the amplitudes when the scan
\* returned amplitudes (a list that is not empty), otherwise an error signal
\* and no frame. No other step of the program emits a signal, an iteration
\* passes that point once (the top of the loop is reached only from the
\* sleep that follows it, or when the thread is started), and after the
\* signal, an error included, the loop sleeps and goes on to the top of the
\* next iteration.
C21_OneSignalPerIteration ==
    [][ /\ AfterScanStep =>
              /\ pc'["loop"] = "sleep"
              /\ Len(signals') = Len(signals) + 1
              /\ SubSeq(signals', 1, Len(signals)) = signals
              /\ LET result == loc["loop"].result
                     signal == signals'[Len(signals')]
                 IN  IF result.kind = "list" /\ result.val # << >>
                     THEN signal.kind = "frame"
                          /\ signal.amplitudes = result.val
                     ELSE signal.kind = "error"
        /\ ~AfterScanStep => signals' = signals
        /\ (pc["loop"] = "sleep" /\ pc'["loop"] # "sleep")
              => pc'["loop"] = "top"
        /\ (pc["loop"] # "top" /\ pc'["loop"] = "top")
              => pc["loop"] \in { "sleep", "none", "done" }
      ]_vars

\* An iteration has emitted an error signal and the loop is in the scan call
\* of the next iteration.
C21_Witness ==
    /\ signals # << >>
    /\ signals[Len(signals)].kind = "error"
    /\ InScanCall

\* C22: run() ends only at the top of an iteration, with the stop flag set
\* (`running` false): a scan call that returned nothing or raised is followed
\* by the sleep, not by the end of the loop.
C22_LoopEndsOnlyByStopFlag ==
    [][ /\ (pc["loop"] # "done" /\ pc'["loop"] = "done")
              => pc["loop"] = "top" /\ ~running
        /\ (pc["loop"] = "return" /\ running)
              => pc'["loop"] \in { "return", "sleep" }
      ]_vars

\* The scan call of an iteration raised, and the loop, not stopped, has slept
\* and is back at the top of the next iteration.
C22_Witness ==
    /\ signals # << >>
    /\ signals[Len(signals)].text = "Scan error"
    /\ running
    /\ pc["loop"] = "top"

\* C23: with the stop flag set (`running` false) the loop begins no scan call:
\* from the top of the loop it goes to its end only, a call begun before the
\* flag was set being the only one that goes on; and, the thread being
\* scheduled and every read returning, a wait() of stop_scan is followed by
\* the end of run() and the return of wait().
C23_StopEndsTheLoop ==
    /\ [][ (~running /\ pc["loop"] = "top")
              => pc'["loop"] \in { "top", "done" } ]_vars
    /\ [][ (~running /\ pc["loop"] \in { "return", "sleep" })
              => pc'["loop"] \notin { "write", "incr_load", "incr_store",
                                      "read", "finish" } ]_vars
    /\ ((pc["gui"] = "wait") ~> (pc["gui"] = "idle" /\ ~LoopAlive))

\* stop_scan has set the flag and waits while the loop is in a scan call.
C23_Witness ==
    /\ ~running
    /\ pc["gui"] = "wait"
    /\ pc["loop"] = "read"

\* C24: with the stop flag set while the loop sleeps (after an error or a
\* frame), the loop does nothing with the device any more: from the sleep it
\* goes to the top of the loop and from there, the flag still set, to its end,
\* and no step of it writes to or reads from the port.
C24_StopDuringSleepMakesNoDeviceCall ==
    [][ (~running /\ pc["loop"] \in { "sleep", "top" })
          => /\ ~running'
             /\ pc'["loop"] \in { "sleep", "top", "done" }
             /\ (pc["loop"] = "top" /\ pc'["loop"] # "top")
                   => pc'["loop"] = "done"
             /\ wire_idx' = wire_idx
             /\ package_index' = package_index
             /\ rx' = rx
      ]_vars

\* The flag was set during the one-second sleep that follows an exception.
C24_Witness ==
    /\ ~running
    /\ pc["loop"] = "sleep"
    /\ sleep_ms = 1000
    /\ pc["gui"] = "wait"

\* C25: the port is closed only when no acquisition loop is running: while
\* run() has not ended the port is open, so none of its writes and reads
\* finds the port closed or being closed.
C25_LoopEndedBeforeClose == ~serial_is_open => ~LoopAlive

\* disconnect_device has closed the port after waiting for the end of a
\* loop that has run an iteration.
C25_Witness ==
    /\ ~serial_is_open
    /\ pc["loop"] = "done"
    /\ signals # << >>

\* The throttle interval of run(), msleep(50), in milliseconds.
throttle_ms == 50

\* C31: between two consecutive scan calls of the loop the thread sleeps, for
\* the throttle interval at least: a scan call begins at the top of the loop
\* only; the top is reached from a sleep (or when the thread is started, for
\* its first call); the sleep follows every scan call, with or without a
\* frame; and every sleep is of 50 ms or more.  Frames being emitted after
\* scan calls only, no two frames are emitted without that sleep in between.
C31_SleepBetweenScanCalls ==
    /\ [](pc["loop"] = "sleep" => sleep_ms >= throttle_ms)
    /\ [][ /\ (pc["loop"] # pc'["loop"] /\ pc'["loop"] \in { "write", "return" })
              => pc["loop"] \in { "top", "finish", "write" }
           /\ (pc["loop"] = "return" /\ pc'["loop"] # "return")
              => pc'["loop"] = "sleep"
           /\ (pc["loop"] # "top" /\ pc'["loop"] = "top")
              => pc["loop"] \in { "sleep", "none", "done" }
           /\ signals' # signals => pc["loop"] = "return"
         ]_vars

\* The loop has emitted two frames, one after the other.
C31_Witness ==
    /\ Len(signals) >= 2
    /\ signals[Len(signals)].kind = "frame"
    /\ signals[Len(signals) - 1].kind = "frame"



-----------------------------------------------------------------------------
(* The frequencies of a frame and the scan that get_scan_range accepted,    *)
(* on the single calls of SpecCall.                                         *)

\* C39: a configuration that get_scan_range accepts (it goes on to write the
\* request) has between 2 and 2000 points, and its last point,
\* start + (numPoints - 1) * step, is not above stop; so the frequencies
\* run() builds (line 80) from a response of numPoints samples all lie in
\* [start, stop].
C39_AcceptedScanStaysInRange ==
    (ScanCalled /\ call.wrote) =>
        LET cfg == input.cfg
            n == CalledPoints
        IN  /\ 2 <= n /\ n <= 2000
            /\ cfg.start + (n - 1) * cfg.step <= cfg.stop
            /\ (call.result.kind = "list" /\ Len(call.result.val) = n) =>
                  LET frequencies ==
                          frequency_axis(cfg.start, cfg.step,
                                         Len(call.result.val))
                  IN  \A i \in 1..n : /\ cfg.start <= frequencies[i]
                                      /\ frequencies[i] <= cfg.stop

\* An accepted scan whose step does not divide the span (23 points from
\* 1500 MHz to 6 GHz in steps of 200 MHz) was answered with 23 samples.
C39_Witness ==
    /\ ScanCalled /\ call.wrote
    /\ CalledPoints = 23
    /\ (input.cfg.stop - input.cfg.start) % input.cfg.step # 0
    /\ call.result.kind = "list" /\ Len(call.result.val) = 23

-----------------------------------------------------------------------------
(* SpecConfigure: SpectrumThread with configure_scan called while it runs.  *)
(* run() reads the keys of scan_config one after the other (lines 66-72),   *)
(* and the controller's configure_scan may run between two of the reads.    *)
(* In SpecThreads nothing writes scan_config while the loop is alive, and   *)
(* LoopTop reads it at once.                                                *)

\* dict.update(params): the keys given are replaced, the others kept
update(d, params) ==
    [k \in DOMAIN d |-> IF k \in DOMAIN params THEN params[k] ELSE d[k]]

\* The arguments of configure_scan, as in EnhancedSpectrumAnalyzer.start_scan
\* (line 1269): 1500-1700 MHz and 1800-2000 MHz, in steps of 100 MHz.
ConfigureCalls ==
    { [start_freq |-> Hz(1500000000), stop_freq |-> Hz(1700000000),
       step_freq |-> Hz(100000000), attenuation |-> 0, tracking |-> FALSE],
      [start_freq |-> Hz(1800000000), stop_freq |-> Hz(2000000000),
       step_freq |-> Hz(100000000), attenuation |-> 0, tracking |-> FALSE] }

\* The keys of scan_params in the order run() evaluates them.
ParamKeys == << "start", "stop", "step", "attenuation", "tracking" >>

\* SpectrumThread.configure_scan, called by the controller at any time
configure_scan ==
    /\ GuiIdle /\ gui.scan_thread
    /\ \E params \in ConfigureCalls :
          /\ update(scan_config, params) # scan_config
          /\ scan_config' = update(scan_config, params)
    /\ UNCHANGED << svars, rx, pc, loc, running, gui, signals, sleep_ms,
                    budget >>
    /\ UNCHANGED rvars

\* SpectrumThread.run, line 63: `while self.running`
ParamsTop ==
    /\ pc["loop"] = "top"
    /\ IF running
       THEN /\ budget > 0
            /\ budget' = budget - 1
            /\ pc' = [pc EXCEPT !["loop"] = "params"]
            /\ loc' = [loc EXCEPT !["loop"] = [NoLocal EXCEPT !.tmp = 1]]
       ELSE /\ pc' = [pc EXCEPT !["loop"] = "done"]
            /\ UNCHANGED << loc, budget >>
    /\ UNCHANGED << svars, rx, running, scan_config, gui, signals, sleep_ms >>
    /\ UNCHANGED rvars

\* SpectrumThread.run, lines 66-72: one entry of scan_params is read from
\* scan_config
GetParam ==
    /\ pc["loop"] = "params"
    /\ LET key == ParamKeys[loc["loop"].tmp]
       IN  loc' = [loc EXCEPT
                     !["loop"].cfg[key] = scan_params(scan_config)[key],
                     !["loop"].tmp = @ + 1]
    /\ pc' = [pc EXCEPT !["loop"] = IF loc["loop"].tmp = Len(ParamKeys)
                                    THEN "scan" ELSE "params"]
    /\ UNCHANGED << svars, rx, running, scan_config, gui, signals, sleep_ms,
                    budget >>
    /\ UNCHANGED rvars

\* SpectrumThread.run, line 74: self.device.get_scan_range(**scan_params),
\* the only user of the device here
ScanCall ==
    /\ pc["loop"] = "scan"
    /\ LET cfg == loc["loop"].cfg
       IN  get_scan_range(cfg, DeviceReply(scan_command(cfg.tracking),
                                           package_index, cfg))
    /\ loc' = [loc EXCEPT !["loop"].result = call'.result,
                          !["loop"].op = "get_scan_range"]
    /\ pc' = [pc EXCEPT !["loop"] = "return"]
    /\ UNCHANGED << serial_is_open, input, rx, running, scan_config, gui,
                    signals, sleep_ms, budget >>
    /\ UNCHANGED rvars

\* EnhancedSpectrumAnalyzer.start_scan has configured and started the
\* thread.
InitConfigure ==
    /\ serial_is_open = TRUE
    /\ InitSession(0)
    /\ input = NoInput
    /\ call = NoCall
    /\ rx = << >>
    /\ pc = [t \in Threads |-> IF t = "gui" THEN "idle" ELSE "top"]
    /\ loc = [t \in Threads |-> NoLocal]
    /\ running = TRUE
    /\ \E params \in ConfigureCalls :
          scan_config = update(InitScanConfig, params)
    /\ gui = [device |-> TRUE, scan_thread |-> TRUE, scanning |-> TRUE]
    /\ signals = << >>
    /\ sleep_ms = 0
    /\ budget = MaxOperations
    /\ NoRecording

NextConfigure ==
    \/ configure_scan
    \/ ParamsTop
    \/ GetParam
    \/ ScanCall
    \/ LoopAfterScan
    \/ LoopWake
    \/ stop_scan
    \/ GuiJoin

SpecConfigure == InitConfigure /\ [][NextConfigure]_vars

\* The parameters of a scan whose configuration is the one a configure_scan
\* call has set.
ConfiguredParams ==
    { scan_params(update(InitScanConfig, params)) : params \in ConfigureCalls }

\* C26: the parameters an iteration calls get_scan_range with, and builds the
\* frequency axis from, are those of one configuration: with configure_scan
\* called while the loop runs, they are the parameters of one of the
\* configurations that the calls have set, never a mix of two.
C26_ParametersFromOneConfiguration ==
    pc["loop"] \in { "scan", "return" } => loc["loop"].cfg \in ConfiguredParams

-----------------------------------------------------------------------------
(* SpecRecording: SpectrumThread.run with start_recording and               *)
(* stop_recording called by the GUI thread while it runs.  The scan thread  *)
(* is the only user of the device and nothing writes scan_config, so an     *)
(* iteration's scan is one step; the statements of lines 76-91 that read or *)
(* write what the GUI thread's calls write are steps of their own.          *)

MaxRecordings == 2    \* calls of start_recording
MaxClock == 2         \* the readings of the clock are 0..MaxClock

\* The locals of run() in the frame's path
ScanLocal(cfg, result) ==
    [op |-> "get_scan_range", cfg |-> cfg, result |-> result,
     frequencies |-> << >>, timestamp |-> 0, buffer |-> 0]

\* spectrum_data.emit(frequencies, amplitudes, timestamp), line 91
StampedFrame(frequencies, amplitudes, timestamp) ==
    [kind |-> "frame", text |-> "", frequencies |-> frequencies,
     amplitudes |-> amplitudes, timestamp |-> timestamp]

\* The dict appended to recorded_data, lines 85-89.  emitted_as is not in the
\* program: it is the place among the signals of the frame's emission, which
\* tells the frames of two iterations apart when they carry the same values.
RecordedFrame(frequencies, amplitudes, timestamp, emitted_as) ==
    [timestamp |-> timestamp, frequencies |-> frequencies,
     amplitudes |-> amplitudes, emitted_as |-> emitted_as]

\* What time.time() may return after it returned now: the same, a later
\* time or, the system clock having been set back, an earlier one (it reads
\* the wall clock).
time_time(now) == { t \in 0..MaxClock : t \in { now - 1, now, now + 1 } }

\* SpectrumThread.run, lines 63-74: the test of the flag, scan_params and the
\* scan call
RecScan ==
    /\ pc["loop"] = "top"
    /\ IF running
       THEN /\ budget > 0
            /\ budget' = budget - 1
            /\ LET cfg == scan_params(scan_config)
               IN  /\ get_scan_range(cfg,
                                     DeviceReply(scan_command(cfg.tracking),
                                                 package_index, cfg))
                   /\ loc' = [loc EXCEPT
                                !["loop"] = ScanLocal(cfg, call'.result)]
            /\ pc' = [pc EXCEPT !["loop"] = "return"]
       ELSE /\ pc' = [pc EXCEPT !["loop"] = "done"]
            /\ UNCHANGED << package_index, wire_idx, wire_last, call, loc,
                            budget >>
    /\ UNCHANGED << serial_is_open, input, rx, running, scan_config, gui,
                    signals, sleep_ms >>
    /\ UNCHANGED rvars

\* SpectrumThread.run, lines 76-82 and 92-99: without amplitudes an error is
\* emitted and the thread sleeps; with amplitudes the frequencies are built
\* and the time is read.
RecAfterScan ==
    /\ pc["loop"] = "return"
    /\ LET result == loc["loop"].result
           cfg == loc["loop"].cfg
       IN  IF result.kind = "raise"
           THEN /\ signals' = Append(signals, ErrorSignal("Scan error"))
                /\ sleep_ms' = 1000
                /\ pc' = [pc EXCEPT !["loop"] = "sleep"]
                /\ UNCHANGED << loc, clock >>
           ELSE IF Truthy(result)
           THEN /\ \E timestamp \in time_time(clock.now) :
                      /\ loc' = [loc EXCEPT
                                   !["loop"].frequencies =
                                       frequency_axis(cfg.start, cfg.step,
                                                      Len(result.val)),
                                   !["loop"].timestamp = timestamp]
                      /\ clock' = [now |-> timestamp,
                                   set_back |-> clock.set_back
                                                \/ timestamp < clock.now]
                /\ pc' = [pc EXCEPT !["loop"] = "if_recording"]
                /\ UNCHANGED << signals, sleep_ms >>
           ELSE /\ signals' = Append(signals, ErrorSignal("No data received"))
                /\ sleep_ms' = 50
                /\ pc' = [pc EXCEPT !["loop"] = "sleep"]
                /\ UNCHANGED << loc, clock >>
    /\ UNCHANGED << svars, rx, running, scan_config, gui, budget >>
    /\ UNCHANGED << recording, recorded_data, lists, returned, started_at >>
    /\ UNCHANGED << workers, sessions >>

\* SpectrumThread.run, line 84: `if self.recording`
RecTestRecording ==
    /\ pc["loop"] = "if_recording"
    /\ pc' = [pc EXCEPT !["loop"] = IF recording THEN "load_buffer"
                                    ELSE "emit"]
    /\ UNCHANGED << svars, rx, loc, running, scan_config, gui, signals,
                    sleep_ms, budget >>
    /\ UNCHANGED rvars

\* SpectrumThread.run, line 85: self.recorded_data is evaluated, before the
\* dict is built and append is called
RecLoadBuffer ==
    /\ pc["loop"] = "load_buffer"
    /\ loc' = [loc EXCEPT !["loop"].buffer = recorded_data]
    /\ pc' = [pc EXCEPT !["loop"] = "append"]
    /\ UNCHANGED << svars, rx, running, scan_config, gui, signals, sleep_ms,
                    budget >>
    /\ UNCHANGED rvars

\* An append at the front of the list.
RecAppend_at_front ==
    /\ pc["loop"] = "append"
    /\ LET l == loc["loop"]
       IN  lists' = [lists EXCEPT ![l.buffer] =
                        << RecordedFrame(l.frequencies, l.result.val,
                                         l.timestamp, Len(signals) + 1) >>
                        \o @]
    /\ pc' = [pc EXCEPT !["loop"] = "emit"]
    /\ UNCHANGED << svars, rx, loc, running, scan_config, gui, signals,
                    sleep_ms, budget >>
    /\ UNCHANGED << recording, recorded_data, returned, started_at, clock >>
    /\ UNCHANGED << workers, sessions >>

\* SpectrumThread.run, lines 85-89: the dict is appended to the list
RecAppend ==
    /\ pc["loop"] = "append"
    /\ LET l == loc["loop"]
       IN  lists' = [lists EXCEPT ![l.buffer] =
                        Append(@, RecordedFrame(l.frequencies, l.result.val,
                                                l.timestamp,
                                                Len(signals) + 1))]
    /\ pc' = [pc EXCEPT !["loop"] = "emit"]
    /\ UNCHANGED << svars, rx, loc, running, scan_config, gui, signals,
                    sleep_ms, budget >>
    /\ UNCHANGED << recording, recorded_data, returned, started_at, clock >>
    /\ UNCHANGED << workers, sessions >>

\* SpectrumThread.run, lines 91 and 95: the frame is emitted and the thread
\* sleeps
RecEmit ==
    /\ pc["loop"] = "emit"
    /\ LET l == loc["loop"]
       IN  signals' = Append(signals, StampedFrame(l.frequencies, l.result.val,
                                                   l.timestamp))
    /\ sleep_ms' = 50
    /\ pc' = [pc EXCEPT !["loop"] = "sleep"]
    /\ UNCHANGED << svars, rx, loc, running, scan_config, gui, budget >>
    /\ UNCHANGED rvars

\* EnhancedSpectrumAnalyzer.start_recording (`if self.scan_thread`) and
\* SpectrumThread.start_recording, line 55: self.recording = True
StartRecordingFlag ==
    /\ GuiIdle /\ gui.scan_thread
    /\ ~recording
    /\ Len(lists) < 2 * MaxRecordings
    /\ recording' = TRUE
    /\ pc' = [pc EXCEPT !["gui"] = "start_recording"]
    /\ UNCHANGED << svars, rx, loc, running, scan_config, gui, signals,
                    sleep_ms, budget >>
    /\ UNCHANGED << recorded_data, lists, returned, started_at, clock >>
    /\ UNCHANGED << workers, sessions >>

\* SpectrumThread.start_recording, line 56: self.recorded_data = [], a new
\* list; the call returns
StartRecordingClear ==
    /\ pc["gui"] = "start_recording"
    /\ lists' = Append(lists, << >>)
    /\ recorded_data' = Len(lists) + 1
    /\ started_at' = Len(signals)
    /\ pc' = [pc EXCEPT !["gui"] = "idle"]
    /\ UNCHANGED << svars, rx, loc, running, scan_config, gui, signals,
                    sleep_ms, budget >>
    /\ UNCHANGED << recording, returned, clock >>
    /\ UNCHANGED << workers, sessions >>

\* EnhancedSpectrumAnalyzer.stop_recording (`if self.scan_thread`) and
\* SpectrumThread.stop_recording, line 59: self.recording = False
StopRecordingFlag ==
    /\ GuiIdle /\ gui.scan_thread
    /\ recording
    /\ recording' = FALSE
    /\ returned' = [list |-> 0, since |-> started_at, until |-> Len(signals)]
    /\ pc' = [pc EXCEPT !["gui"] = "stop_recording"]
    /\ UNCHANGED << svars, rx, loc, running, scan_config, gui, signals,
                    sleep_ms, budget >>
    /\ UNCHANGED << recorded_data, lists, started_at, clock >>
    /\ UNCHANGED << workers, sessions >>

\* stop_recording returning the list itself.
StopRecordingCopy_without_copy ==
    /\ pc["gui"] = "stop_recording"
    /\ returned' = [returned EXCEPT !.list = recorded_data]
    /\ pc' = [pc EXCEPT !["gui"] = "idle"]
    /\ UNCHANGED << svars, rx, loc, running, scan_config, gui, signals,
                    sleep_ms, budget >>
    /\ UNCHANGED << recording, recorded_data, lists, started_at, clock >>
    /\ UNCHANGED << workers, sessions >>

\* SpectrumThread.stop_recording, line 60: return self.recorded_data.copy(),
\* a new list
StopRecordingCopy ==
    /\ pc["gui"] = "stop_recording"
    /\ lists' = Append(lists, lists[recorded_data])
    /\ returned' = [returned EXCEPT !.list = Len(lists) + 1]
    /\ pc' = [pc EXCEPT !["gui"] = "idle"]
    /\ UNCHANGED << svars, rx, loc, running, scan_config, gui, signals,
                    sleep_ms, budget >>
    /\ UNCHANGED << recording, recorded_data, started_at, clock >>
    /\ UNCHANGED << workers, sessions >>

\* EnhancedSpectrumAnalyzer.start_scan has configured and started the
\* thread, which is not recording.
InitRecording ==
    /\ serial_is_open = TRUE
    /\ InitSession(0)
    /\ input = NoInput
    /\ call = NoCall
    /\ rx = << >>
    /\ pc = [t \in Threads |-> IF t = "gui" THEN "idle" ELSE "top"]
    /\ loc = [t \in Threads |-> NoLocal]
    /\ running = TRUE
    /\ scan_config = [InitScanConfig EXCEPT
                         !.start_freq = GuiSweep.start,
                         !.stop_freq = GuiSweep.stop,
                         !.step_freq = GuiSweep.step]
    /\ gui = [device |-> TRUE, scan_thread |-> TRUE, scanning |-> TRUE]
    /\ signals = << >>
    /\ sleep_ms = 0
    /\ budget = MaxOperations
    /\ NoRecording

NextRecording ==
    \/ RecScan
    \/ RecAfterScan
    \/ RecTestRecording
    \/ RecLoadBuffer
    \/ RecAppend
    \/ RecEmit
    \/ LoopWake
    \/ StartRecordingFlag
    \/ StartRecordingClear
    \/ StopRecordingFlag
    \/ StopRecordingCopy
    \/ stop_scan
    \/ GuiJoin

SpecRecording == InitRecording /\ [][NextRecording]_vars

\* The entry e of a list is the frame of one emission: of the signal at its
\* place, or of the frame the loop is about to emit.
IsEmission(e) ==
    IF e.emitted_as <= Len(signals)
    THEN signals[e.emitted_as] =
            StampedFrame(e.frequencies, e.amplitudes, e.timestamp)
    ELSE /\ e.emitted_as = Len(signals) + 1
         /\ pc["loop"] = "emit"
         /\ e.frequencies = loc["loop"].frequencies
         /\ e.amplitudes = loc["loop"].result.val
         /\ e.timestamp = loc["loop"].timestamp

\* The list l holds emitted (or about to be emitted) frames in the order of
\* their emission.
InEmissionOrder(l) ==
    /\ \A i \in 1..Len(l) : IsEmission(l[i])
    /\ \A i, j \in 1..Len(l) : i < j => l[i].emitted_as < l[j].emitted_as

NonDecreasingTimestamps(l) ==
    \A i, j \in 1..Len(l) : i < j => l[i].timestamp <= l[j].timestamp

\* A signal is emitted at the end of the signals; a frame carries the
\* amplitudes of the scan that completed last.
EmittedInScanOrder ==
    signals' # signals
      => /\ Len(signals') = Len(signals) + 1
         /\ SubSeq(signals', 1, Len(signals)) = signals
         /\ signals'[Len(signals')].kind = "frame"
              => call.result = List(signals'[Len(signals')].amplitudes)

\* C27 as stated, for the recording buffer: recorded_data (and every list
\* that was the buffer or is a copy of it) holds emitted or about to be
\* emitted frames in the order of their emission, with timestamps that never
\* decrease.
C27_BufferOrderedWithTimestamps ==
    \A r \in 1..Len(lists) :
       InEmissionOrder(lists[r]) /\ NonDecreasingTimestamps(lists[r])

\* C27, amended: frames are emitted in the order their scans completed, and
\* the recording buffer is at all times a subsequence of the emitted (or
\* about to be emitted) frames in that order; its timestamps do not decrease
\* as long as the system clock, which time.time() reads, was not set back.
C27_BufferInEmissionOrder ==
    /\ [][EmittedInScanOrder]_vars
    /\ [](\A r \in 1..Len(lists) :
             /\ InEmissionOrder(lists[r])
             /\ ~clock.set_back => NonDecreasingTimestamps(lists[r]))

\* The buffer holds the frames of two iterations, taken at different times of
\* a clock that was not set back.
C27_Witness ==
    /\ Len(lists[recorded_data]) = 2
    /\ lists[recorded_data][1].timestamp < lists[recorded_data][2].timestamp
    /\ ~clock.set_back

\* C28: what stop_recording returned holds only frames appended, and
\* emitted, after the most recent start_recording returned (which made the
\* buffer a new empty list); and it is a list of its own: nothing changes it
\* after the return, whatever the loop appends to the buffer.
C28_ReturnedIsRecentAndDetached ==
    /\ [](returned.list # 0
            => \A i \in 1..Len(lists[returned.list]) :
                  lists[returned.list][i].emitted_as > returned.since)
    /\ [][ (returned.list # 0 /\ returned'.list = returned.list)
             => lists'[returned.list] = lists[returned.list] ]_vars

\* stop_recording has returned one frame and the loop has appended another
\* to the buffer since.
C28_Witness ==
    /\ returned.list # 0
    /\ Len(lists[returned.list]) = 1
    /\ Len(lists[recorded_data]) = 2

\* C29: every frame emitted after start_recording returned and before
\* stop_recording was called is in the list that stop_recording returned.
C29_EveryFrameWhileRecordingIsReturned ==
    returned.list # 0
      => \A i \in (returned.since + 1)..returned.until :
            signals[i].kind = "frame"
              => \E j \in 1..Len(lists[returned.list]) :
                    lists[returned.list][j].emitted_as = i

----------------------------------------------------------------------------
(* SpecDecode: the amplitude decoder on its own, on every buffer of up to    *)
(* MaxBuffer bytes over BufferBytes and the attenuations below               *)

MaxBuffer == 5        \* bytes in a buffer given to the decoder

\* Bytes with no bit set, with low bits, with bits on both sides of the
\* 11-bit mask, the space byte and all bits set.
BufferBytes == { 0, 7, 8, 32, 251, 255 }

\* In dB as get_scan_range takes it; the decoder itself takes any number.
DecodeAttenuations == { -30, 0, 5 }

\* A call of ArinstDevice.__decode_data(response, attenuation)
decode(response, attenuation) ==
    /\ call' = [op |-> "decode_data", wrote |-> FALSE, reads |-> 0,
                timeouts |-> 0, response |-> << >>,
                result |-> List(decode_data(response, attenuation))]
    /\ UNCHANGED << serial_is_open, package_index, wire_idx, wire_last >>

InitDecode ==
    /\ serial_is_open = TRUE
    /\ InitSession(0)
    /\ \E buffer \in SeqsUpTo(BufferBytes, MaxBuffer),
          attenuation \in DecodeAttenuations :
          input = Arbitrary("decode_data", 0, 0,
                            Cfg(DefaultCfg.start, DefaultCfg.stop,
                                DefaultCfg.step, attenuation, FALSE),
                            buffer)
    /\ call = NoCall
    /\ NoThreads

CallDecodeData ==
    /\ Pending("decode_data")
    /\ decode(input.reply, input.cfg.attenuation)
    /\ UNCHANGED << input, tvars >>

NextDecode == CallDecodeData

SpecDecode == InitDecode /\ [][NextDecode]_vars

\* C13: for every byte buffer b and attenuation, the decoder returns
\* floor(len/2) readings in transmission order, an odd last byte being
\* ignored; the k-th (from 0) is (800 - sample)/10 - attenuation/100 with
\* sample the low 11 bits of b[2k] * 256 + b[2k+1] (here in hundredths of a
\* dBm).
C13_DecoderReadings ==
    call.op = "decode_data" =>
        LET b == input.reply
            readings == call.result.val
        IN  /\ call.result.kind = "list"
            /\ Len(readings) = Len(b) \div 2
            /\ \A k \in 0..(Len(readings) - 1) :
                  readings[k + 1] =
                      (800 - ((b[2 * k + 1] * 256 + b[2 * k + 2]) % 2048)) * 10
                      - input.cfg.attenuation

\* Five bytes at attenuation -30: two readings in order, sample 800 under the
\* five unused bits (0.0 dBm + 0.30 dBm) and sample 7 (79.3 dBm + 0.30 dBm);
\* the fifth byte is ignored.
C13_Witness ==
    /\ call.op = "decode_data"
    /\ input.reply = << 251, 32, 0, 7, 8 >> /\ input.cfg.attenuation = -30
    /\ call.result = List(<< 30, 7960 >>)

\* The buffer b with every complete pair of bytes replaced by the two bytes
\* of its low 11 bits (the pair read as first * 256 + second); an odd last
\* byte is kept.
MaskPairs(b) ==
    [i \in 1..Len(b) |->
        IF i % 2 = 1
        THEN IF i + 1 <= Len(b)
             THEN ((b[i] * 256 + b[i + 1]) % 2048) \div 256
             ELSE b[i]
        ELSE ((b[i - 1] * 256 + b[i]) % 2048) % 256]

\* C32: the decoder's result depends on the low 11 bits of each pair only:
\* for every buffer and attenuation, the buffer whose pairs were masked to
\* their low 11 bits decodes to what the buffer itself decoded to; and
\* decoding the same buffer at the same attenuation again gives what the call
\* returned.
C32_DecodingSeesLow11BitsOnly ==
    call.op = "decode_data" =>
        /\ decode_data(MaskPairs(input.reply), input.cfg.attenuation)
              = call.result.val
        /\ decode_data(input.reply, input.cfg.attenuation) = call.result.val
        /\ MaskPairs(MaskPairs(input.reply)) = MaskPairs(input.reply)

\* A buffer of two pairs, both with bits above the low 11, and an odd byte
\* has been decoded.
C32_Witness ==
    /\ call.op = "decode_data"
    /\ input.reply = << 251, 32, 8, 7, 255 >>
    /\ MaskPairs(input.reply) = << 3, 32, 0, 7, 255 >>

\* SpectrumThread.stop_scan has returned: wait() has ended and the
\* controller has forgotten the thread (in SpecRecording the thread is
\* started once, by Init).
StopScanReturned == GuiIdle /\ ~gui.scan_thread

\* C38: once stop_scan has returned, the thread emits no frame and no error
\* signal, makes no device call and appends nothing to a recording buffer.
C38_NothingAfterStopScanReturned ==
    [][StopScanReturned =>
          /\ signals' = signals
          /\ wire_idx' = wire_idx /\ package_index' = package_index
          /\ call' = call
          /\ \A l \in 1..Len(lists) : lists'[l] = lists[l]]_vars

\* stop_scan has returned for a thread that was recording and had emitted a
\* frame and appended it.
C38_Witness ==
    /\ StopScanReturned
    /\ pc["loop"] = "done"
    /\ recording
    /\ Len(lists[recorded_data]) > 0
    /\ \E i \in 1..Len(signals) : signals[i].kind = "frame"

-----------------------------------------------------------------------------
(* SpecParse: the parsing that send_command does of the bytes _read returns, *)
(* on its own, on every blob of up to MaxBlob bytes over BlobBytes           *)

MaxBlob == 7          \* bytes in a blob given to the parsing

\* The two bytes of the terminator, the space and a letter.
BlobBytes == { 13, 10, 32, 97 }

\* ArinstDevice.send_command, lines 77-84, on the bytes msg
split_response(msg) ==
    /\ call' = [op |-> "split_response", wrote |-> FALSE, reads |-> 0,
                timeouts |-> 0, response |-> decode_response(msg),
                result |-> None]
    /\ UNCHANGED << serial_is_open, package_index, wire_idx, wire_last >>

InitParse ==
    /\ serial_is_open = TRUE
    /\ InitSession(0)
    /\ \E blob \in SeqsUpTo(BlobBytes, MaxBlob) :
          input = Arbitrary("split_response", 0, 0, DefaultCfg, blob)
    /\ call = NoCall
    /\ NoThreads

CallSplitResponse ==
    /\ Pending("split_response")
    /\ split_response(input.reply)
    /\ UNCHANGED << input, tvars >>

NextParse == CallSplitResponse

SpecParse == InitParse /\ [][NextParse]_vars

\* The n-th smallest (from 1) of a set of numbers.
Nth(S, n) == CHOOSE x \in S : Cardinality({ y \in S : y < x }) = n - 1

\* Where the terminators of the blob b begin.
TerminatorsOf(b) ==
    { i \in 1..(Len(b) - 1) : b[i] = 13 /\ b[i + 1] = 10 }

\* The last byte of the terminator-delimited segment of b that begins at a.
SegmentEnd(b, a) ==
    LET after == { i \in TerminatorsOf(b) : i >= a }
    IN  IF after = {} THEN Len(b) ELSE Nth(after, 1) - 1

\* Where the non-empty terminator-delimited segments of b begin.
SegmentStarts(b) ==
    { a \in {1} \cup { i + 2 : i \in TerminatorsOf(b) } :
        SegmentEnd(b, a) >= a }

\* The tokens of the segment g: what lies between the spaces, its beginning
\* and its end.
TokensOf(g) ==
    LET cuts == {0} \cup { i \in 1..Len(g) : g[i] = 32 } \cup { Len(g) + 1 }
    IN  [j \in 1..(Cardinality(cuts) - 1) |->
            SubSeq(g, Nth(cuts, j) + 1, Nth(cuts, j + 1) - 1)]

\* C34: for every blob, send_command's result is the blob's non-empty
\* terminator-delimited segments in their order in the blob, each split on
\* the space byte: no group stands for an empty segment, and every group has
\* one token at least.
C34_GroupsAreNonEmptySegmentsInOrder ==
    call.op = "split_response" =>
        LET b == input.reply
            groups == call.response
        IN  /\ Len(groups) = Cardinality(SegmentStarts(b))
            /\ \A j \in 1..Len(groups) :
                  LET a == Nth(SegmentStarts(b), j)
                  IN  /\ groups[j] = TokensOf(SubSeq(b, a, SegmentEnd(b, a)))
                      /\ Len(groups[j]) >= 1
                      /\ groups[j] # << << >> >>

\* A blob that begins with a terminator: its two segments in order, the
\* second of two tokens, the first of them empty.
C34_Witness ==
    /\ call.op = "split_response"
    /\ input.reply = << 13, 10, 97, 13, 10, 32, 97 >>
    /\ call.response = << << << 97 >> >>, << << >>, << 97 >> >> >>

-----------------------------------------------------------------------------
(* SpecWorkers: the controller's actions on the SpectrumThread and          *)
(* ArinstDevice objects it creates.  Every start_scan that passes the guard *)
(* makes a new SpectrumThread and every connect_device a new ArinstDevice;  *)
(* gui.device and gui.scan_thread refer to them by their place in sessions  *)
(* and workers, 0 for None.  Of run() only the test of the stop flag        *)
(* matters here: an iteration is one step out of the top and one back.      *)

MaxWorkers == 3       \* SpectrumThread objects created
MaxSessions == 2      \* ArinstDevice objects created

\* SpectrumThread.__init__: not started, running False
NewWorker(device) == [running |-> FALSE, state |-> "new", device |-> device]

\* QThread.isRunning()
isRunning(w) == workers[w].state \in { "top", "busy" }

WorkersUnchanged ==
    UNCHANGED << svars, rx, running, scan_config, signals, sleep_ms, budget,
                 recording, recorded_data, lists, returned, started_at,
                 clock >>

\* EnhancedSpectrumAnalyzer.connect_device with a port that opens (when
\* ArinstDevice raises, nothing changes)
ConnectDevice ==
    /\ GuiIdle
    /\ Len(sessions) < MaxSessions
    /\ sessions' = Append(sessions, [is_open |-> TRUE])
    /\ gui' = [gui EXCEPT !.device = Len(sessions) + 1]
    /\ UNCHANGED << pc, loc, workers >>
    /\ WorkersUnchanged

\* EnhancedSpectrumAnalyzer.stop_scan and SpectrumThread.stop_scan up to
\* wait()
StopScan ==
    /\ GuiIdle
    /\ IF gui.scan_thread # 0
       THEN /\ workers' = [workers EXCEPT ![gui.scan_thread].running = FALSE]
            /\ pc' = [pc EXCEPT !["gui"] = "wait"]
            /\ loc' = [loc EXCEPT !["gui"].then = "idle"]
            /\ UNCHANGED gui
       ELSE /\ gui' = [gui EXCEPT !.scanning = FALSE]
            /\ UNCHANGED << pc, loc, workers >>
    /\ UNCHANGED sessions
    /\ WorkersUnchanged

\* EnhancedSpectrumAnalyzer.disconnect_device: stop_scan, then close (here
\* when there is no thread to wait for, else in WorkerJoin)
DisconnectDevice ==
    /\ GuiIdle
    /\ IF gui.device = 0
       THEN UNCHANGED << gui, pc, loc, workers, sessions >>
       ELSE IF gui.scan_thread # 0
       THEN /\ workers' = [workers EXCEPT ![gui.scan_thread].running = FALSE]
            /\ pc' = [pc EXCEPT !["gui"] = "wait"]
            /\ loc' = [loc EXCEPT !["gui"].then = "close"]
            /\ UNCHANGED << gui, sessions >>
       ELSE /\ sessions' = [sessions EXCEPT ![gui.device].is_open = FALSE]
            /\ gui' = [device |-> 0, scan_thread |-> 0, scanning |-> FALSE]
            /\ UNCHANGED << pc, loc, workers >>
    /\ WorkersUnchanged

\* QThread.wait() returns at once for a thread that was not started and
\* else when run() has ended; stop_scan then forgets the thread, and
\* disconnect_device closes the device.
WorkerJoin ==
    /\ pc["gui"] = "wait"
    /\ ~isRunning(gui.scan_thread)
    /\ pc' = [pc EXCEPT !["gui"] = "idle"]
    /\ loc' = [loc EXCEPT !["gui"] = NoLocal]
    /\ IF loc["gui"].then = "close"
       THEN /\ sessions' = [sessions EXCEPT ![gui.device].is_open = FALSE]
            /\ gui' = [device |-> 0, scan_thread |-> 0, scanning |-> FALSE]
       ELSE /\ gui' = [gui EXCEPT !.scan_thread = 0, !.scanning = FALSE]
            /\ UNCHANGED sessions
    /\ UNCHANGED workers
    /\ WorkersUnchanged

\* start_scan without the test of isRunning.
StartScan_without_guard ==
    /\ GuiIdle
    /\ gui.device # 0
    /\ Len(workers) < MaxWorkers
    /\ \E valid \in BOOLEAN :
          IF valid
          THEN /\ workers' = Append(workers,
                                    [running |-> TRUE, state |-> "top",
                                     device |-> gui.device])
               /\ gui' = [gui EXCEPT !.scan_thread = Len(workers) + 1,
                                     !.scanning = TRUE]
          ELSE /\ workers' = Append(workers, NewWorker(gui.device))
               /\ gui' = [gui EXCEPT !.scan_thread = Len(workers) + 1]
    /\ UNCHANGED << pc, loc, sessions >>
    /\ WorkersUnchanged

\* EnhancedSpectrumAnalyzer.start_scan: nothing without a device or with a
\* thread that is running; else a new SpectrumThread, which is configured
\* and started when the range entered is valid.
StartScan ==
    /\ GuiIdle
    /\ gui.device # 0
    /\ ~(gui.scan_thread # 0 /\ isRunning(gui.scan_thread))
    /\ Len(workers) < MaxWorkers
    /\ \E valid \in BOOLEAN :
          IF valid
          THEN /\ workers' = Append(workers,
                                    [running |-> TRUE, state |-> "top",
                                     device |-> gui.device])
               /\ gui' = [gui EXCEPT !.scan_thread = Len(workers) + 1,
                                     !.scanning = TRUE]
          ELSE /\ workers' = Append(workers, NewWorker(gui.device))
               /\ gui' = [gui EXCEPT !.scan_thread = Len(workers) + 1]
    /\ UNCHANGED << pc, loc, sessions >>
    /\ WorkersUnchanged

\* EnhancedSpectrumAnalyzer.toggle_scan
ToggleScan == IF gui.scanning THEN StopScan ELSE StartScan

\* EnhancedSpectrumAnalyzer.toggle_connection
ToggleConnection ==
    IF gui.device # 0 /\ sessions[gui.device].is_open
    THEN DisconnectDevice
    ELSE ConnectDevice

\* SpectrumThread.run of the thread w: `while self.running`, an iteration,
\* the end of run()
WorkerStep(w) ==
    /\ isRunning(w)
    /\ workers' = [workers EXCEPT ![w].state =
                      IF workers[w].state = "busy" THEN "top"
                      ELSE IF workers[w].running THEN "busy"
                      ELSE "finished"]
    /\ UNCHANGED << pc, loc, gui, sessions >>
    /\ WorkersUnchanged

\* The application started: no device, no thread.
InitWorkers ==
    /\ serial_is_open = TRUE
    /\ InitSession(0)
    /\ input = NoInput
    /\ call = NoCall
    /\ rx = << >>
    /\ pc = [t \in Threads |-> IF t = "gui" THEN "idle" ELSE "none"]
    /\ loc = [t \in Threads |-> NoLocal]
    /\ running = FALSE
    /\ scan_config = InitScanConfig
    /\ gui = [device |-> 0, scan_thread |-> 0, scanning |-> FALSE]
    /\ signals = << >>
    /\ sleep_ms = 0
    /\ budget = 0
    /\ NoRecording

NextWorkers ==
    \/ ConnectDevice
    \/ DisconnectDevice
    \/ ToggleConnection
    \/ StartScan
    \/ StopScan
    \/ ToggleScan
    \/ WorkerJoin
    \/ \E w \in 1..Len(workers) : WorkerStep(w)

SpecWorkers == InitWorkers /\ [][NextWorkers]_vars

\* The threads whose run() is running.
RunningWorkers == { w \in 1..Len(workers) : isRunning(w) }

\* C35: whatever the controller's actions were (connect, disconnect,
\* start_scan, stop_scan, toggle_scan, in any order), the run() of at most
\* one SpectrumThread is running, so at most one for any device session.
C35_AtMostOneWorker == Cardinality(RunningWorkers) <= 1

\* A thread runs against the second session after the thread of the first
\* has ended.
C35_Witness ==
    /\ \E w \in RunningWorkers : workers[w].device = 2
    /\ \E w \in 1..Len(workers) :
          workers[w].device = 1 /\ workers[w].state = "finished"

-----------------------------------------------------------------------------
(* SpecLate: a sequence of calls on a device that answers every request as  *)
(* the driver expects, but not always in time.  rx is the bytes of the      *)
(* last reply that reach the input buffer after _read has reset it (lines   *)
(* 70-71): nothing discards them before the next call's read_until.         *)

Min(a, b) == IF a < b THEN a ELSE b

\* send_command for the operation op when the first k bytes of the device's
\* reply arrive before the reads end and the others after the reset of the
\* input buffer.  The reads start on what the buffer holds: the late bytes
\* of the request before, then the bytes in time.  `late` counts the bytes
\* read that answer the request before.
send_command_late(op, command, args, k) ==
    LET w == write(serial_is_open, package_index, command, args)
        reply == GoodReply(command, package_index, << >>)
        r == read(command, rx \o SubSeq(reply, 1, k))
        response == decode_response(r.msg)
    IN  /\ k \in 0..Len(reply)
        /\ package_index' = w.index
        /\ wire_idx' = wire_idx \o [i \in 1..Len(w.sent) |-> w.sent[i].index]
        /\ wire_last' = Last(w.sent)
        /\ call' = [op |-> op, wrote |-> TRUE, reads |-> r.reads,
                    timeouts |-> r.timeouts, response |-> response,
                    result |-> result_of(op, command, 0, response),
                    late |-> Min(Len(rx), Len(r.msg))]
        /\ rx' = SubSeq(reply, k + 1, Len(reply))
        /\ input' = Arbitrary(op, 0, 0, DefaultCfg, reply)
        /\ UNCHANGED serial_is_open

LateUnchanged ==
    UNCHANGED << pc, loc, running, scan_config, gui, signals, sleep_ms,
                 budget, rvars >>

\* ArinstDevice.on
LateOn ==
    /\ MayWrite
    /\ \E k \in 0..Len(GoodReply(GENERATOR_ON, package_index, << >>)) :
          send_command_late("on", GENERATOR_ON, << >>, k)
    /\ LateUnchanged

\* ArinstDevice.off
LateOff ==
    /\ MayWrite
    /\ \E k \in 0..Len(GoodReply(GENERATOR_OFF, package_index, << >>)) :
          send_command_late("off", GENERATOR_OFF, << >>, k)
    /\ LateUnchanged

\* ArinstDevice.set_frequency
LateSetFrequency ==
    /\ MayWrite
    /\ \E k \in 0..Len(GoodReply(GENERATOR_SET_FREQUENCY, package_index,
                                 << >>)) :
          send_command_late("set_frequency", GENERATOR_SET_FREQUENCY,
                            << Hz(1500000000) >>, k)
    /\ LateUnchanged

\* A session just opened: nothing in the input buffer.
InitLate ==
    /\ serial_is_open = TRUE
    /\ InitSession(0)
    /\ input = NoInput
    /\ call = NoCall @@ [late |-> 0]
    /\ NoThreads

NextLate ==
    \/ LateOn
    \/ LateOff
    \/ LateSetFrequency

SpecLate == InitLate /\ [][NextLate]_vars

\* C36: an operation that reports success read no byte of the reply to an
\* earlier request: bytes that arrive after their own request's reads have
\* ended are never taken for the response of a later request.
C36_SuccessOnOwnReplyOnly ==
    (call.op # "none" /\ call.result = Bool(TRUE)) => call.late = 0

-----------------------------------------------------------------------------
(* SpecKeyForms: configure_scan called with either form of the keys, and    *)
(* only between two iterations of run() (the loop is at its top, asleep or  *)
(* ended), so that no iteration reads scan_config while it changes.         *)
(* loc["gui"].cfg is the controller's account of the values it passed       *)
(* last.                                                                    *)

\* Arguments of configure_scan: the keys of start_scan (line 1269) and the
\* keys of scan_config (lines 32-38), all of them or the start alone.
KeyFormCalls ==
    ConfigureCalls \cup
    { [start |-> Hz(1600000000)],
      [start |-> Hz(1600000000), stop |-> Hz(2000000000),
       step |-> Hz(200000000)] }

\* The value passed last for `key`, in either form, after a call with params.
PassedLast(before, params, key, key_freq) ==
    IF key \in DOMAIN params THEN params[key]
    ELSE IF key_freq \in DOMAIN params THEN params[key_freq]
    ELSE before[key]

LatestPassed(before, params) ==
    [before EXCEPT
        !.start = PassedLast(before, params, "start", "start_freq"),
        !.stop = PassedLast(before, params, "stop", "stop_freq"),
        !.step = PassedLast(before, params, "step", "step_freq")]

\* SpectrumThread.configure_scan, called between two iterations
configure_scan_between ==
    /\ GuiIdle /\ gui.scan_thread
    /\ pc["loop"] \in { "top", "sleep", "done" }
    /\ \E params \in KeyFormCalls :
          /\ scan_config' = update(scan_config, params)
          /\ loc' = [loc EXCEPT
                        !["gui"].cfg = LatestPassed(loc["gui"].cfg, params)]
          /\ << scan_config', loc' >> # << scan_config, loc >>
    /\ UNCHANGED << svars, rx, pc, running, gui, signals, sleep_ms, budget >>
    /\ UNCHANGED rvars

\* EnhancedSpectrumAnalyzer.start_scan has configured and started the
\* thread.
InitKeyForms ==
    /\ serial_is_open = TRUE
    /\ InitSession(0)
    /\ input = NoInput
    /\ call = NoCall
    /\ rx = << >>
    /\ pc = [t \in Threads |-> IF t = "gui" THEN "idle" ELSE "top"]
    /\ \E params \in ConfigureCalls :
          /\ scan_config = update(InitScanConfig, params)
          /\ loc = [t \in Threads |->
                       IF t = "gui"
                       THEN [NoLocal EXCEPT
                               !.cfg = LatestPassed(NoLocal.cfg, params)]
                       ELSE NoLocal]
    /\ running = TRUE
    /\ gui = [device |-> TRUE, scan_thread |-> TRUE, scanning |-> TRUE]
    /\ signals = << >>
    /\ sleep_ms = 0
    /\ budget = MaxOperations
    /\ NoRecording

NextKeyForms ==
    \/ configure_scan_between
    \/ ParamsTop
    \/ GetParam
    \/ ScanCall
    \/ LoopAfterScan
    \/ LoopWake
    \/ stop_scan
    \/ GuiJoin

SpecKeyForms == InitKeyForms /\ [][NextKeyForms]_vars

\* C37: an iteration scans with the start, stop and step passed last to
\* configure_scan, in whichever form of the keys: after
\* configure_scan(start=x) the next iteration scans from x, also when an
\* earlier call had set start_freq.
C37_ScansWithValuesPassedLast ==
    pc["loop"] \in { "scan", "return" } =>
        /\ loc["loop"].cfg.start = loc["gui"].cfg.start
        /\ loc["loop"].cfg.stop = loc["gui"].cfg.stop
        /\ loc["loop"].cfg.step = loc["gui"].cfg.step

====
